---- MODULE Spec2Model ----
(***************************************************************************)
(* duplicalis: the duplicate classification engine.                        *)
(*   src/src/cache.js       fingerprint, cache store load/save             *)
(*   src/src/similarity.js  embedComponents, findSimilarities               *)
(*   labels.js              labelPair                                      *)
(*   src/src/output.js      printMatches                                   *)
(*   embedding/local.js     LocalEmbeddingBackend                          *)
(* Texts are sequences of chunks of characters. Values whose JavaScript    *)
(* type varies (undefined, null, a number, an array, an object) are records*)
(* tagged by t.                                                            *)
(***************************************************************************)
EXTENDS Integers, Sequences, FiniteSets, TLC

VARIABLES
    mode,       \* which part of the program this behaviour exercises
    fpA,        \* fingerprintRepresentation: first argument tuple
    fpB,        \* fingerprintRepresentation: second argument tuple
    fpEdits,    \* how many signals of fpB were changed away from fpA
    fpOut,      \* the two digests, once computed
    lcPath,     \* loadCache: the cachePath argument
    lcDisk,     \* loadCache: what the file system holds at that path
    lcResult,   \* loadCache: the outcome of the call, once made
    emDisk,     \* embedComponents: the cache file on disk
    emFiles,    \* the source files that exist on disk
    emConfig,   \* the config of the runs
    emRuns,     \* how many runs were started
    emRun,      \* the local state of the current embedComponents call
    emHistory,  \* (history) per key of the cache file, the codeRep its entry was written for
    simEntries, \* findSimilarities: the entries argument
    simConfig,  \* findSimilarities: the config argument
    simRun,     \* findSimilarities: its loop position, locals and result
    simPrinted, \* emitReport: the pairs the console's top matches section showed
    lbA,        \* labelPair: the entryA argument
    lbB,        \* labelPair: the entryB argument
    lbSimilarity, \* labelPair: the similarity argument
    lbConfig,   \* labelPair: the config argument
    lbResult,   \* labelPair: what the call returned, once made
    plUnits,    \* scan: the two units, each a component and its representations
    plVec,      \* scan: the vector the backend returns for every input
    plEntries,  \* scan: what embedComponents returned, once called
    plResult,   \* scan: what findSimilarities returned, once called
    beBackend,  \* LocalEmbeddingBackend: the fields of the instance
    beEnv,      \* LocalEmbeddingBackend: the model directory and the promises made
    beCalls,    \* LocalEmbeddingBackend: the position of each embed call
    beLog,      \* (history) the readiness steps and pipeline creations, in order
    pdA,        \* pathDistance: the pathA argument
    pdB,        \* pathDistance: the pathB argument
    pdOut,      \* pathDistance: what the call returned, once made
    spA,        \* suppressPair: the entryA argument
    spB,        \* suppressPair: the entryB argument
    spOut,      \* suppressPair: what the call returned, once made
    cvVectors,  \* combineVectors: the vectors argument
    cvWeight,   \* combineVectors: the weight argument
    cvHasStyleSignal, \* combineVectors: options.hasStyleSignal
    cvOut       \* combineVectors: what the call returned, once made

fpVars == <<fpA, fpB, fpEdits, fpOut>>
lcVars == <<lcPath, lcDisk, lcResult>>
emVars == <<emDisk, emFiles, emConfig, emRuns, emRun, emHistory>>
simVars == <<simEntries, simConfig, simRun, simPrinted>>
lbVars == <<lbA, lbB, lbSimilarity, lbConfig, lbResult>>
plVars == <<plUnits, plVec, plEntries, plResult>>
beVars == <<beBackend, beEnv, beCalls, beLog>>
pdVars == <<pdA, pdB, pdOut>>
spVars == <<spA, spB, spOut>>
cvVars == <<cvVectors, cvWeight, cvHasStyleSignal, cvOut>>
pureVars == <<pdVars, spVars, cvVars>>
restVars == <<lbVars, plVars, beVars, pureVars>>
vars == <<mode, fpVars, lcVars, emVars, simVars, restVars>>

Undefined == [t |-> "undefined"]

\* An argument that was not passed where a text is expected.
NoText == <<"undefined">>

(***************************************************************************)
(* cache.js: fingerprintRepresentation                                     *)
(***************************************************************************)

\* The texts a representation can be: '', 'a', 'b', 'ab'.
Texts == {<<>>, <<"a">>, <<"b">>, <<"a", "b">>}

Signals == {"codeRep", "styleRep", "styleText", "structureRep", "holisticRep"}

\* x || ''
OrEmpty(x) == IF x = NoText THEN <<>> ELSE x

\* hash.update(chunk): SHA-1 consumes the chunks as one byte stream.
HashUpdate(stream, chunk) == stream \o chunk

\* hash.digest('hex'): the digest is taken as collision-free on its byte
\* input, so it is represented by the byte stream it was computed from.
HashDigest(stream) == stream

fingerprintRepresentation(codeRep, styleRep, styleText, structureRep, holisticRep) ==
    LET h0 == <<>>
        h1 == HashUpdate(h0, OrEmpty(codeRep))
        h2 == HashUpdate(h1, OrEmpty(styleRep))
        h3 == HashUpdate(h2, OrEmpty(styleText))
        h4 == HashUpdate(h3, OrEmpty(structureRep))
        h5 == HashUpdate(h4, OrEmpty(holisticRep))
    IN  HashDigest(h5)

FingerprintOf(t) ==
    fingerprintRepresentation(t.codeRep, t.styleRep, t.styleText,
                              t.structureRep, t.holisticRep)

(***************************************************************************)
(* JavaScript values                                                       *)
(***************************************************************************)

Null == [t |-> "null"]
Num(n) == [t |-> "number", n |-> n]
Arr(v) == [t |-> "array", v |-> v]
Obj(m) == [t |-> "object", m |-> m]

\* !x for the values above.
Falsy(x) ==
    \/ x.t \in {"undefined", "null"}
    \/ x.t = "number" /\ x.n = 0

\* A text used as a condition: '' and undefined are falsy.
FalsyText(x) == x \in {NoText, <<>>}

(***************************************************************************)
(* cache.js: the cache store                                               *)
(***************************************************************************)

CACHE_VERSION == 1

\* { version: CACHE_VERSION, entries: {} }
EmptyStore == [t |-> "store", version |-> Num(CACHE_VERSION), entries |-> Obj(<<>>)]

\* One cache entry as embedComponents writes it; each field may be absent in a
\* file written by something else.
CacheEntry(fingerprint, codeVec, styleVec, structureVec, holisticVec, filePath) ==
    [fingerprint |-> fingerprint, codeVec |-> codeVec, styleVec |-> styleVec,
     structureVec |-> structureVec, holisticVec |-> holisticVec, filePath |-> filePath]

\* fs.readFileSync(cachePath): the bytes, or an exception.
ReadFileSync(disk) ==
    IF disk.kind = "data" \/ disk.kind = "garbage"
    THEN [threw |-> FALSE, raw |-> disk]
    ELSE [threw |-> TRUE, raw |-> disk]

\* msgpackr decode(raw): throws unless the bytes are a MessagePack document.
Decode(raw) ==
    IF raw.kind = "data" /\ raw.encoding = "msgpack"
    THEN [threw |-> FALSE, value |-> raw.value]
    ELSE [threw |-> TRUE, value |-> Undefined]

\* JSON.parse(raw.toString('utf8')): throws unless the bytes are JSON text.
JsonParse(raw) ==
    IF raw.kind = "data" /\ raw.encoding = "json"
    THEN [threw |-> FALSE, value |-> raw.value]
    ELSE [threw |-> TRUE, value |-> Undefined]

\* parsed.version and parsed.entries: a property read throws on null and
\* undefined, and gives undefined on a number.
PropertyReadThrows(parsed) == parsed.t \in {"null", "undefined"}
VersionOf(parsed) == IF parsed.t = "store" THEN parsed.version ELSE Undefined
EntriesOf(parsed) == IF parsed.t = "store" THEN parsed.entries ELSE Undefined

\* LoadCacheTry without the version and entries test of cache.js:20.
LoadCacheTry_NoVersionCheck(disk) ==
    LET read == ReadFileSync(disk)
        first == Decode(read.raw)
        second == JsonParse(read.raw)
        parsed == IF first.threw THEN second.value ELSE first.value
    IN  IF read.threw \/ (first.threw /\ second.threw) \/ PropertyReadThrows(parsed)
        THEN [threw |-> TRUE, store |-> EmptyStore]
        ELSE IF parsed.t # "store"
        THEN [threw |-> FALSE, store |-> EmptyStore]
        ELSE [threw |-> FALSE, store |-> parsed]

\* The try block of loadCache (cache.js:13-23).
LoadCacheTry(disk) ==
    LET read == ReadFileSync(disk)
        first == Decode(read.raw)
        second == JsonParse(read.raw)
        parsed == IF first.threw THEN second.value ELSE first.value
    IN  IF read.threw \/ (first.threw /\ second.threw) \/ PropertyReadThrows(parsed)
        THEN [threw |-> TRUE, store |-> EmptyStore]
        ELSE IF VersionOf(parsed) # Num(CACHE_VERSION) \/ Falsy(EntriesOf(parsed))
        THEN [threw |-> FALSE, store |-> EmptyStore]
        ELSE [threw |-> FALSE, store |-> parsed]

\* loadCache(cachePath, language): the store returned, whether console.warn
\* was called, and whether the call threw.
loadCache(cachePath, disk) ==
    IF FalsyText(cachePath)
    THEN [threw |-> FALSE, warned |-> FALSE, store |-> EmptyStore]
    ELSE IF disk.kind = "missing"
    THEN [threw |-> FALSE, warned |-> FALSE, store |-> EmptyStore]
    ELSE LET body == LoadCacheTry(disk)
         IN  IF body.threw
             THEN [threw |-> FALSE, warned |-> TRUE, store |-> EmptyStore]
             ELSE [threw |-> FALSE, warned |-> FALSE, store |-> body.store]

\* saveCache that writes although no path is set.
saveCache_AnyPath(cachePath, cache, disk) ==
    [kind |-> "data", encoding |-> "msgpack", value |-> cache]

\* saveCache(cachePath, cache): the file system afterwards.
saveCache(cachePath, cache, disk) ==
    IF FalsyText(cachePath)
    THEN disk
    ELSE [kind |-> "data", encoding |-> "msgpack", value |-> cache]


(***************************************************************************)
(* cache.js: cache keys                                                    *)
(***************************************************************************)

\* modelKey(config): 'remote:<model>', 'mock' or 'local:<modelPath>'.
modelKey(config) ==
    IF config.model = "remote" THEN <<"remote", ":">> \o config.remoteModel
    ELSE IF config.model = "mock" THEN <<"mock">>
    ELSE <<"local", ":">> \o config.modelPath

\* buildCacheKey(modelKey, componentId): `${modelKey}:${componentId}`.
buildCacheKey(mKey, componentId) == mKey \o <<":">> \o componentId

(***************************************************************************)
(* similarity.js: embedComponents and its helpers                          *)
(***************************************************************************)

Max(a, b) == IF a >= b THEN a ELSE b
Min(a, b) == IF a <= b THEN a ELSE b

\* DEFAULT_WEIGHT, in hundredths.
DEFAULT_WEIGHT == [code |-> 55, style |-> 20, structure |-> 15, holistic |-> 10]

VecKeys == <<"codeVec", "styleVec", "structureVec", "holisticVec">>

\* Array.isArray(x) && x.length > 0
NonEmptyArray(x) == x.t = "array" /\ Len(x.v) > 0

\* zeroVector(length)
zeroVector(length) == [i \in 1..length |-> 0]

\* isCompleteCachedEntry(entry, fingerprint); entry is undefined or an entry.
isCompleteCachedEntry(entry, fingerprint) ==
    IF entry = Undefined THEN FALSE
    ELSE IF entry.fingerprint # fingerprint THEN FALSE
    ELSE \A i \in 1..Len(VecKeys) : NonEmptyArray(entry[VecKeys[i]])

\* cache.entries?.[cacheId]
CachedEntry(cache, cacheId) ==
    IF cache.entries.t # "object" THEN Undefined
    ELSE IF cacheId \in DOMAIN cache.entries.m THEN cache.entries.m[cacheId]
    ELSE Undefined

\* cached?.fingerprint === fingerprint
FingerprintMatch(cached, fingerprint) ==
    IF cached = Undefined THEN FALSE ELSE cached.fingerprint = fingerprint

\* The vector a unit starts with for one key (similarity.js:58-69): the cached
\* one on a hit or on a fingerprint match, undefined otherwise.
StartVec(cached, fingerprint, key) ==
    IF isCompleteCachedEntry(cached, fingerprint) \/ FingerprintMatch(cached, fingerprint)
    THEN cached[key]
    ELSE Undefined

\* The calls of a unit that embeds all of its signals again unless the cached
\* entry is complete.
EmbedCalls_AllOnMiss(cached, fingerprint, rep) ==
    LET need(key) == ~isCompleteCachedEntry(cached, fingerprint)
        one(key, signal, text) ==
            IF need(key) THEN <<[signal |-> signal, text |-> text]>> ELSE <<>>
    IN  one("codeVec", "code", rep.codeRep)
        \o (IF FalsyText(rep.styleRep) THEN <<>> ELSE one("styleVec", "style", rep.styleRep))
        \o one("structureVec", "structure", rep.structureRep)
        \o one("holisticVec", "holistic", rep.holisticRep)

\* The backend.embed calls one unit makes, in order: each a signal and its
\* text (similarity.js:71-87). A style vector is requested only when styleRep
\* is a non-empty text.
EmbedCalls(cached, fingerprint, rep) ==
    LET need(key) == Falsy(StartVec(cached, fingerprint, key))
        one(key, signal, text) ==
            IF need(key) THEN <<[signal |-> signal, text |-> text]>> ELSE <<>>
    IN  one("codeVec", "code", rep.codeRep)
        \o (IF FalsyText(rep.styleRep) THEN <<>> ELSE one("styleVec", "style", rep.styleRep))
        \o one("structureVec", "structure", rep.structureRep)
        \o one("holisticVec", "holistic", rep.holisticRep)

\* Whether the unit sets dirty: some vector was not taken from the cache.
UnitDirties(cached, fingerprint) ==
    \E i \in 1..Len(VecKeys) : Falsy(StartVec(cached, fingerprint, VecKeys[i]))

\* The injected backend: embed(text) is a function of the text alone.
VecPos == <<3, 4>>
VecNeg == <<-3, -4>>
BackendEmbed(text) == IF Len(text) % 2 = 1 THEN VecPos ELSE VecNeg

\* The four vectors of a unit once every backend call has answered
\* (similarity.js:71-87).
ResolveVectors(cached, fingerprint, rep) ==
    LET c0 == StartVec(cached, fingerprint, "codeVec")
        s0 == StartVec(cached, fingerprint, "styleVec")
        t0 == StartVec(cached, fingerprint, "structureVec")
        h0 == StartVec(cached, fingerprint, "holisticVec")
        codeVec == IF Falsy(c0) THEN Arr(BackendEmbed(rep.codeRep)) ELSE c0
        dimension == Max(1, Len(codeVec.v))
        styleVec == IF Falsy(s0)
                    THEN (IF FalsyText(rep.styleRep)
                          THEN Arr(zeroVector(dimension))
                          ELSE Arr(BackendEmbed(rep.styleRep)))
                    ELSE s0
        structureVec == IF Falsy(t0) THEN Arr(BackendEmbed(rep.structureRep)) ELSE t0
        holisticVec == IF Falsy(h0) THEN Arr(BackendEmbed(rep.holisticRep)) ELSE h0
    IN  [codeVec |-> codeVec, styleVec |-> styleVec,
         structureVec |-> structureVec, holisticVec |-> holisticVec]

(***************************************************************************)
(* math.js: normalize and cosine. A vector is a sequence of integers that  *)
(* stands for the real vector of the same direction; a unit vector is the  *)
(* primitive integer vector of its direction. A similarity is an integer   *)
(* number of millionths.                                                    *)
(***************************************************************************)

SimOne == 1000000

Abs(x) == IF x < 0 THEN -x ELSE x

RECURSIVE Gcd(_, _)
Gcd(a, b) == IF b = 0 THEN a ELSE Gcd(b, a % b)

RECURSIVE GcdOfVec(_)
GcdOfVec(v) == IF v = <<>> THEN 0 ELSE Gcd(Abs(Head(v)), GcdOfVec(Tail(v)))

\* normalize(v): v scaled to length 1; a vector of norm 0 is returned as is.
normalize(v) ==
    LET g == GcdOfVec(v)
    IN  IF g = 0 THEN v ELSE [i \in 1..Len(v) |-> v[i] \div g]

RECURSIVE DotUpTo(_, _, _)
DotUpTo(a, b, n) == IF n = 0 THEN 0 ELSE a[n] * b[n] + DotUpTo(a, b, n - 1)

\* The integer square root.
Isqrt(n) == CHOOSE k \in 0..n : k * k <= n /\ (k + 1) * (k + 1) > n

\* floor(x * SimOne / d) without leaving 32 bits.
ScaledQuotient(x, d) == x * (SimOne \div d) + (x * (SimOne % d)) \div d

\* cosine(a, b): 0 when either vector is empty or has norm 0.
cosine(a, b) ==
    LET n == Min(Len(a), Len(b))
        na == Isqrt(DotUpTo(a, a, n))
        nb == Isqrt(DotUpTo(b, b, n))
    IN  IF n = 0 \/ na = 0 \/ nb = 0 THEN 0
        ELSE ScaledQuotient(DotUpTo(a, b, n), na * nb)

\* Number(x.toFixed(4)) of a similarity.
ToFixed4(x) == ((x + 50) \div 100) * 100

\* Number((sum / count).toFixed(4))
MeanToFixed4(sum, count) == ((2 * sum + 100 * count) \div (200 * count)) * 100

(***************************************************************************)
(* similarity.js: combineVectors                                           *)
(***************************************************************************)

RECURSIVE SumWeights(_)
SumWeights(parts) ==
    IF parts = <<>> THEN 0 ELSE Head(parts).weight + SumWeights(Tail(parts))

RECURSIVE MinLength(_)
MinLength(parts) ==
    IF Len(parts) = 1 THEN Len(Head(parts).vec.v)
    ELSE Min(Len(Head(parts).vec.v), MinLength(Tail(parts)))

RECURSIVE WeightedAt(_, _)
WeightedAt(parts, i) ==
    IF parts = <<>> THEN 0
    ELSE Head(parts).vec.v[i] * Head(parts).weight + WeightedAt(Tail(parts), i)

\* combineVectors that gives the style part its configured weight whether or
\* not the unit has a style signal.
combineVectors_StyleAlways(vectors, weight, hasStyleSignal) ==
    LET resolvedWeight == weight
        all == <<[key |-> "code", vec |-> vectors.codeVec, weight |-> resolvedWeight.code],
                 [key |-> "style", vec |-> vectors.styleVec, weight |-> resolvedWeight.style],
                 [key |-> "structure", vec |-> vectors.structureVec,
                  weight |-> resolvedWeight.structure],
                 [key |-> "holistic", vec |-> vectors.holisticVec,
                  weight |-> resolvedWeight.holistic]>>
        parts == SelectSeq(all, LAMBDA part : NonEmptyArray(part.vec) /\ part.weight > 0)
    IN  IF parts = <<>> THEN <<>>
        ELSE LET size == MinLength(parts)
             IN  normalize([i \in 1..size |-> WeightedAt(parts, i)])

\* combineVectors(vectors, weight, { hasStyleSignal }): the weights are in
\* hundredths, and the weighted sum is taken before the division by
\* totalWeight, which normalize undoes.
combineVectors(vectors, weight, hasStyleSignal) ==
    LET resolvedWeight == weight
        all == <<[key |-> "code", vec |-> vectors.codeVec, weight |-> resolvedWeight.code],
                 [key |-> "style", vec |-> vectors.styleVec,
                  weight |-> IF hasStyleSignal = FALSE THEN 0 ELSE resolvedWeight.style],
                 [key |-> "structure", vec |-> vectors.structureVec,
                  weight |-> resolvedWeight.structure],
                 [key |-> "holistic", vec |-> vectors.holisticVec,
                  weight |-> resolvedWeight.holistic]>>
        parts == SelectSeq(all, LAMBDA part : NonEmptyArray(part.vec) /\ part.weight > 0)
    IN  IF parts = <<>> THEN <<>>
        ELSE LET size == MinLength(parts)
             IN  normalize([i \in 1..size |-> WeightedAt(parts, i)])

(***************************************************************************)
(* similarity.js: maybeCleanCache                                          *)
(***************************************************************************)

\* key.lastIndexOf(':'), 1-based; 0 when there is none.
LastColon(key) ==
    LET at == {i \in 1..Len(key) : key[i] = ":"}
    IN  IF at = {} THEN 0 ELSE CHOOSE i \in at : \A j \in at : j <= i

\* text.split('#')[0]
BeforeHash(text) ==
    LET at == {i \in 1..Len(text) : text[i] = "#"}
    IN  IF at = {} THEN text
        ELSE SubSeq(text, 1, (CHOOSE i \in at : \A j \in at : i <= j) - 1)

\* extractFilePathFromCacheKey(key): null is NoText.
extractFilePathFromCacheKey(key) ==
    IF FalsyText(key) THEN NoText
    ELSE IF LastColon(key) = 0 THEN NoText
    ELSE BeforeHash(SubSeq(key, LastColon(key) + 1, Len(key)))

\* entry?.filePath || extractFilePathFromCacheKey(key)
CleanupPath(key, entry) ==
    IF FalsyText(entry.filePath) THEN extractFilePathFromCacheKey(key) ELSE entry.filePath

\* maybeCleanCache(cache, config): the cache afterwards and the number of
\* entries removed; random is the value of Math.random() and files the set
\* of paths for which fs.existsSync is true, both in hundredths and texts.
maybeCleanCache(cache, config, random, files) ==
    IF Falsy(cache.entries) \/ random > config.cleanProbability
    THEN [cache |-> cache, removed |-> 0]
    ELSE LET m == cache.entries.m
             gone == {k \in DOMAIN m :
                        /\ ~FalsyText(CleanupPath(k, m[k]))
                        /\ CleanupPath(k, m[k]) \notin files}
         IN  [cache |-> [cache EXCEPT !.entries = Obj([k \in DOMAIN m \ gone |-> m[k]])],
              removed |-> Cardinality(gone)]

(***************************************************************************)
(* similarity.js: the path-distance gate                                   *)
(***************************************************************************)

PathSeparators == {"/", "\\"}

\* filePath.split(/[/\\]+/).filter(Boolean); acc is the segment being read.
RECURSIVE SplitSegments(_, _)
SplitSegments(text, acc) ==
    IF text = <<>> THEN (IF acc = <<>> THEN <<>> ELSE <<acc>>)
    ELSE IF Head(text) \in PathSeparators
    THEN (IF acc = <<>> THEN <<>> ELSE <<acc>>) \o SplitSegments(Tail(text), <<>>)
    ELSE SplitSegments(Tail(text), Append(acc, Head(text)))

\* splitDirs(filePath): the directories, without the file name.
splitDirs(filePath) ==
    IF FalsyText(filePath) THEN <<>>
    ELSE LET segments == SplitSegments(filePath, <<>>)
         IN  SubSeq(segments, 1, Len(segments) - 1)

\* pathDistance with a loop that gives two files of one directory the depth 1.
pathDistance_SameDirectoryOne(pathA, pathB) ==
    LET partsA == splitDirs(pathA)
        partsB == splitDirs(pathB)
        maxIdx == Max(Len(partsA), Len(partsB))
        at(parts, i) == IF i <= Len(parts)
                        THEN [t |-> "segment", v |-> parts[Len(parts) - i + 1]]
                        ELSE Undefined
        diverged == {i \in 1..maxIdx : at(partsA, i) # at(partsB, i)}
    IN  IF diverged = {} THEN 1 ELSE CHOOSE i \in diverged : \A k \in diverged : i <= k

\* pathDistance(pathA, pathB): the first depth, counted from the file
\* upwards, at which the directories differ; 0 when none differs.
pathDistance(pathA, pathB) ==
    LET partsA == splitDirs(pathA)
        partsB == splitDirs(pathB)
        maxIdx == Max(Len(partsA), Len(partsB))
        at(parts, i) == IF i <= Len(parts)
                        THEN [t |-> "segment", v |-> parts[Len(parts) - i + 1]]
                        ELSE Undefined
        diverged == {i \in 1..maxIdx : at(partsA, i) # at(partsB, i)}
    IN  IF diverged = {} THEN 0 ELSE CHOOSE i \in diverged : \A k \in diverged : i <= k

\* A string that is not the text of a number.
Str(v) == [t |-> "string", v |-> v]

\* Not-a-Number: every comparison with it is false.
NaN == [t |-> "NaN"]

\* Number(x || 0) for x undefined, null, a number or a non-numeric string.
NumberOrZero(x) ==
    IF Falsy(x) THEN Num(0)
    ELSE IF x.t = "number" THEN x
    ELSE NaN

\* shouldSkipByPath that lets two files of one directory through.
shouldSkipByPath_SameFolderAllowed(pathA, pathB, config) ==
    LET minDistance == NumberOrZero(config.minPathDistance)
        distance == pathDistance(pathA, pathB)
    IN  IF minDistance = NaN THEN FALSE
        ELSE IF minDistance.n <= 0 THEN FALSE
        ELSE distance > 0 /\ distance < minDistance.n

\* shouldSkipByPath(pathA, pathB, config)
shouldSkipByPath(pathA, pathB, config) ==
    LET minDistance == NumberOrZero(config.minPathDistance)
    IN  IF minDistance = NaN THEN FALSE
        ELSE IF minDistance.n <= 0 THEN FALSE
        ELSE pathDistance(pathA, pathB) < minDistance.n

(***************************************************************************)
(* similarity.js: suppressPair                                             *)
(***************************************************************************)

\* new Set(list)
SetOf(list) == {list[i] : i \in 1..Len(list)}

\* null, as the value of a suppression or of a check that does not apply.
NoReason == "null"

\* countNonEmptyLines(source): a source is a sequence of lines, each the
\* sequence of its words; a blank line has none.
countNonEmptyLines(source) == Len(SelectSeq(source, LAMBDA line : line # <<>>))

\* hasProps(component)
hasProps(component) == Len(component.props.names) + component.props.spreads > 0

\* listLength(list)
listLength(list) == Len(list)

\* isWrapperLike(component)
isWrapperLike(component) ==
    IF component.isWrapper THEN TRUE
    ELSE LET tiny == countNonEmptyLines(component.source) <= 8
             shallowTree == Cardinality(SetOf(component.jsxTags)) <= 2
             hasPropSurface == hasProps(component)
             noLogic == Len(component.logicTokens) + Len(component.hooks) = 0
             limitedText == Len(component.textNodes) <= 2
         IN  tiny /\ shallowTree /\ hasPropSurface /\ noLogic /\ limitedText

\* dominantTag(component): the most frequent tag, the earliest one among
\* equally frequent tags; null without tags.
dominantTag(component) ==
    LET tags == component.jsxTags
        count(tag) == Cardinality({i \in 1..Len(tags) : tags[i] = tag})
        first(tag) == CHOOSE i \in 1..Len(tags) :
                          tags[i] = tag /\ \A k \in 1..(i - 1) : tags[k] # tag
    IN  IF tags = <<>> THEN NoReason
        ELSE CHOOSE tag \in SetOf(tags) :
                 \A other \in SetOf(tags) :
                     \/ count(tag) > count(other)
                     \/ count(tag) = count(other) /\ first(tag) <= first(other)

\* componentSignal(component)
componentSignal(component) ==
    Min(Cardinality(SetOf(component.logicTokens)), 2)
    + Min(Cardinality(SetOf(component.hooks)), 2)
    + Min(Cardinality(SetOf(component.classNames)), 2)
    + Min(Cardinality(SetOf(component.textNodes)), 2)
    + Min(Cardinality(SetOf(component.props.names)), 2)

\* differentWrappedBases(refsA, refsB)
differentWrappedBases(refsA, refsB) ==
    IF refsA = <<>> \/ refsB = <<>> THEN FALSE
    ELSE SetOf(refsA) \cap SetOf(refsB) = {}

\* compositionSuppression that looks at compA's references only.
compositionSuppression_FirstOnly(compA, compB) ==
    IF compB.name \in SetOf(compA.componentRefs) THEN "component-composition" ELSE NoReason

\* compositionSuppression(compA, compB)
compositionSuppression(compA, compB) ==
    IF \/ compB.name \in SetOf(compA.componentRefs)
       \/ compA.name \in SetOf(compB.componentRefs)
    THEN "component-composition"
    ELSE NoReason

\* wrapperSuppression(compA, compB)
wrapperSuppression(compA, compB) ==
    IF ~isWrapperLike(compA) \/ ~isWrapperLike(compB) THEN NoReason
    ELSE IF differentWrappedBases(compA.componentRefs, compB.componentRefs)
    THEN "wrapper-different-base"
    ELSE LET baseA == dominantTag(compA)
             baseB == dominantTag(compB)
             sharedBase == baseA # NoReason /\ baseA = baseB
             noCustomLogic ==
                 /\ listLength(compA.logicTokens) + listLength(compB.logicTokens) = 0
                 /\ listLength(compA.hooks) + listLength(compB.hooks) = 0
             leanText == listLength(compA.textNodes) + listLength(compB.textNodes) <= 3
             leanLiterals == listLength(compA.literals) + listLength(compB.literals) <= 6
         IN  IF sharedBase \/ (noCustomLogic /\ leanText /\ leanLiterals)
             THEN "wrapper-specialization"
             ELSE NoReason

\* lowSignalSuppression(compA, compB)
lowSignalSuppression(compA, compB) ==
    LET shortEnough == /\ countNonEmptyLines(compA.source) <= 16
                       /\ countNonEmptyLines(compB.source) <= 16
        propSurface == hasProps(compA) \/ hasProps(compB)
        wrapperish == isWrapperLike(compA) \/ isWrapperLike(compB)
    IN  IF ~shortEnough THEN NoReason
        ELSE IF ~propSurface /\ ~wrapperish THEN NoReason
        ELSE IF componentSignal(compA) <= 2 /\ componentSignal(compB) <= 2
        THEN "low-signal-pair"
        ELSE NoReason

\* suppressPair that tries the low-signal rule before the wrapper rule.
suppressPair_LowSignalFirst(entryA, entryB) ==
    LET composition == compositionSuppression(entryA.component, entryB.component)
        lowSignal == lowSignalSuppression(entryA.component, entryB.component)
    IN  IF composition # NoReason THEN composition
        ELSE IF lowSignal # NoReason THEN lowSignal
        ELSE wrapperSuppression(entryA.component, entryB.component)

\* suppressPair(entryA, entryB): the first reason that applies.
suppressPair(entryA, entryB) ==
    LET composition == compositionSuppression(entryA.component, entryB.component)
        wrapper == wrapperSuppression(entryA.component, entryB.component)
    IN  IF composition # NoReason THEN composition
        ELSE IF wrapper # NoReason THEN wrapper
        ELSE lowSignalSuppression(entryA.component, entryB.component)

(***************************************************************************)
(* labels.js: labelPair                                                    *)
(***************************************************************************)

\* word.toLowerCase() for the words of the sources below.
UpperCaseWords ==
    [A |-> "a", B |-> "b", C |-> "c", D |-> "d", P |-> "p", T |-> "t", V |-> "v", W |-> "w"]
toLowerCase(word) == IF word \in DOMAIN UpperCaseWords THEN UpperCaseWords[word] ELSE word

\* tokenize(text): the lower-cased words of all lines.
RECURSIVE tokenize(_)
tokenize(text) ==
    IF text = <<>> THEN <<>>
    ELSE [i \in 1..Len(Head(text)) |-> toLowerCase(Head(text)[i])] \o tokenize(Tail(text))

\* lineCount(text): text.split('\n').length, which is 1 for ''.
lineCount(text) == Max(1, Len(text))

\* overlap(listA, listB) >= num / den
OverlapAtLeast(listA, listB, num, den) ==
    IF listA = <<>> \/ listB = <<>> THEN 0 >= num
    ELSE LET a == SetOf(listA)
             b == SetOf(listB)
         IN  Cardinality(a \cap b) * den >= num * Max(Cardinality(a), Cardinality(b))

\* intersect(listA, listB): the items of listA that are in listB, once each.
RECURSIVE Dedupe(_)
Dedupe(list) ==
    IF list = <<>> THEN <<>>
    ELSE LET init == Dedupe(SubSeq(list, 1, Len(list) - 1))
             last == list[Len(list)]
         IN  IF last \in SetOf(init) THEN init ELSE Append(init, last)
intersect(listA, listB) == Dedupe(SelectSeq(listA, LAMBDA item : item \in SetOf(listB)))

\* difference(list, subtract)
difference(list, subtract) == SelectSeq(list, LAMBDA item : item \notin SetOf(subtract))

\* isDisabled that looks at the first item of config.disableAnalyses only.
isDisabled_FirstOnly(config, label) ==
    config.disableAnalyses # <<>> /\ label = Head(config.disableAnalyses)

\* isDisabled(config, label): (config.disableAnalyses || []).includes(label)
isDisabled(config, label) == label \in SetOf(config.disableAnalyses)

\* buildContext(entryA, entryB, similarity, config, i18n): the overlaps are
\* kept as the comparisons the checks make of them.
buildContext(entryA, entryB, similarity, config) ==
    [entryA |-> entryA, entryB |-> entryB, similarity |-> similarity, config |-> config,
     logicOverlapAtLeast06 |->
         OverlapAtLeast(entryA.component.logicTokens, entryB.component.logicTokens, 6, 10),
     literalOverlapAtLeast04 |->
         OverlapAtLeast(entryA.component.literals, entryB.component.literals, 4, 10),
     styleSimilarity |-> cosine(entryA.styleVec.v, entryB.styleVec.v),
     tokenOverlapAtLeast09 |->
         OverlapAtLeast(tokenize(entryA.component.source), tokenize(entryB.component.source),
                        9, 10),
     lineDiff |-> Abs(lineCount(entryA.component.source) - lineCount(entryB.component.source)),
     hasProps |-> /\ Len(entryA.component.props.names) > 0
                  /\ Len(entryB.component.props.names) > 0,
     hasStyles |-> entryA.hasStyles \/ entryB.hasStyles,
     stylePathsA |-> entryA.stylePaths, stylePathsB |-> entryB.stylePaths,
     hasCssInJsA |-> entryA.hasCssInJs, hasCssInJsB |-> entryB.hasCssInJs]

\* The six checks: each gives a label, or null.
wrapperCheck(ctx) ==
    IF isDisabled(ctx.config, "wrapper-duplicate") THEN NoReason
    ELSE IF ctx.entryA.component.isWrapper /\ ctx.entryB.component.isWrapper
    THEN "wrapper-duplicate" ELSE NoReason

\* styleCheck that gives no label whenever a stylesheet is shared and there
\* is no CSS-in-JS, also when a unit has a stylesheet of its own.
styleCheck_SharedAny(ctx) ==
    LET sharedPaths == intersect(ctx.stylePathsA, ctx.stylePathsB)
        sharedOnly == Len(sharedPaths) > 0 /\ ~ctx.hasCssInJsA /\ ~ctx.hasCssInJsB
    IN  IF isDisabled(ctx.config, "style-duplicate") THEN NoReason
        ELSE IF ~ctx.hasStyles THEN NoReason
        ELSE IF sharedOnly THEN NoReason
        ELSE IF ctx.styleSimilarity >= 8 * (SimOne \div 10) THEN "style-duplicate"
        ELSE NoReason

\* styleCheck(ctx)
styleCheck(ctx) ==
    LET sharedPaths == intersect(ctx.stylePathsA, ctx.stylePathsB)
        uniqueA == difference(ctx.stylePathsA, sharedPaths)
        uniqueB == difference(ctx.stylePathsB, sharedPaths)
        sharedOnly == Len(sharedPaths) > 0 /\ ~ctx.hasCssInJsA /\ ~ctx.hasCssInJsB
        onlySharedSources == sharedOnly /\ Len(uniqueA) = 0 /\ Len(uniqueB) = 0
    IN  IF isDisabled(ctx.config, "style-duplicate") THEN NoReason
        ELSE IF ~ctx.hasStyles THEN NoReason
        ELSE IF onlySharedSources THEN NoReason
        ELSE IF ctx.styleSimilarity >= 8 * (SimOne \div 10) THEN "style-duplicate"
        ELSE NoReason

logicCheck(ctx) ==
    IF isDisabled(ctx.config, "logic-duplicate") THEN NoReason
    ELSE IF ctx.logicOverlapAtLeast06 THEN "logic-duplicate" ELSE NoReason

\* copyCheck that looks at the token overlap only.
copyCheck_TokensOnly(ctx) ==
    IF isDisabled(ctx.config, "copy-paste-variant") THEN NoReason
    ELSE IF ctx.tokenOverlapAtLeast09 THEN "copy-paste-variant" ELSE NoReason

\* copyCheck(ctx)
copyCheck(ctx) ==
    IF isDisabled(ctx.config, "copy-paste-variant") THEN NoReason
    ELSE IF ctx.similarity >= 95 * (SimOne \div 100) \/ ctx.tokenOverlapAtLeast09
    THEN "copy-paste-variant" ELSE NoReason

propCheck(ctx) ==
    LET highSimilarity == ctx.similarity >= ctx.config.highSimilarityThreshold
    IN  IF isDisabled(ctx.config, "prop-parameterizable") THEN NoReason
        ELSE IF highSimilarity /\ (ctx.literalOverlapAtLeast04 \/ ctx.hasProps)
        THEN "prop-parameterizable" ELSE NoReason

\* forkCheck that does not look at the labels assigned so far.
forkCheck_AnyLabels(ctx, labels) ==
    LET eligible == /\ ctx.similarity >= ctx.config.similarityThreshold
                    /\ ctx.lineDiff >= 4
    IN  IF isDisabled(ctx.config, "forked-clone") THEN NoReason
        ELSE IF eligible THEN "forked-clone" ELSE NoReason

\* forkCheck(ctx, labels)
forkCheck(ctx, labels) ==
    LET eligible == /\ ctx.similarity >= ctx.config.similarityThreshold
                    /\ Len(labels) = 0
                    /\ ctx.lineDiff >= 4
    IN  IF isDisabled(ctx.config, "forked-clone") THEN NoReason
        ELSE IF eligible THEN "forked-clone" ELSE NoReason

\* The i18n message a label's hint is.
HintOf ==
    [l \in {"wrapper-duplicate", "style-duplicate", "logic-duplicate", "copy-paste-variant",
            "prop-parameterizable", "forked-clone"} |->
        CASE l = "wrapper-duplicate" -> "hintWrapper"
          [] l = "style-duplicate" -> "hintStyle"
          [] l = "logic-duplicate" -> "hintLogic"
          [] l = "copy-paste-variant" -> "hintCopy"
          [] l = "prop-parameterizable" -> "hintProp"
          [] l = "forked-clone" -> "hintFork"]

\* runCheck(labels, hints, result), on the labels alone.
runCheck(labels, result) == IF result = NoReason THEN labels ELSE Append(labels, result)

\* labelPair(entryA, entryB, similarity, config)
labelPair(entryA, entryB, similarity, config) ==
    LET context == buildContext(entryA, entryB, similarity, config)
        l1 == runCheck(<<>>, wrapperCheck(context))
        l2 == runCheck(l1, styleCheck(context))
        l3 == runCheck(l2, logicCheck(context))
        l4 == runCheck(l3, copyCheck(context))
        l5 == runCheck(l4, propCheck(context))
        labels == runCheck(l5, forkCheck(context, l5))
    IN  [labels |-> labels, hints |-> [i \in 1..Len(labels) |-> HintOf[labels[i]]]]

(***************************************************************************)
(* similarity.js: findSimilarities                                         *)
(***************************************************************************)

\* The locals of findSimilarities before the loop (similarity.js:132-138);
\* bestByComponent and suppressionReasons are maps from the keys set so far.
NoTally ==
    [pairs |-> <<>>, bestByComponent |-> <<>>, evaluatedPairs |-> 0, similaritySum |-> 0,
     maxSimilarity |-> 0, suppressedPairs |-> 0, suppressionReasons |-> <<>>]

\* config.maxSimilarityThreshold ?? 1
maxThreshold(config) ==
    IF config.maxSimilarityThreshold.t \in {"undefined", "null"} THEN SimOne
    ELSE config.maxSimilarityThreshold.n

\* Array.isArray(config.compareGlobs) && config.compareGlobs.length > 0
compareEnabled(config) == NonEmptyArray(config.compareGlobs)

\* The compare filter written with && in place of ^: only pairs of two
\* targets are filtered.
CompareFiltered_BothTargets(config, aTarget, bTarget) ==
    compareEnabled(config) /\ aTarget /\ bTarget

\* compareEnabled && !(aTarget ^ bTarget)
CompareFiltered(config, aTarget, bTarget) ==
    compareEnabled(config) /\ ~(aTarget # bTarget)

\* The threshold gate written with <= in place of <.
BelowThreshold_OrAt(sim, config) == sim <= config.similarityThreshold

\* sim < config.similarityThreshold
BelowThreshold(sim, config) == sim < config.similarityThreshold

\* sim - maxThreshold > 1e-6
Epsilon == SimOne \div 1000000
OverMaxThreshold(sim, config) == sim - maxThreshold(config) > Epsilon

\* trackBestSimilarity(bestByComponent, componentId, similarity)
trackBestSimilarity(bestByComponent, componentId, similarity) ==
    LET current == IF componentId \in DOMAIN bestByComponent
                   THEN bestByComponent[componentId] ELSE 0
    IN  IF similarity > current
        THEN [id \in DOMAIN bestByComponent \cup {componentId} |->
                 IF id = componentId THEN similarity ELSE bestByComponent[id]]
        ELSE bestByComponent

\* A suppression that is counted under its reason only.
Suppress_ReasonOnly(tally, reason) ==
    [tally EXCEPT
        !.suppressionReasons =
            [r \in DOMAIN @ \cup {reason} |-> IF r \in DOMAIN @ THEN
                                                  (IF r = reason THEN @[r] + 1 ELSE @[r])
                                              ELSE 1]]

\* suppressedPairs += 1; suppressionReasons[reason] = (... || 0) + 1
Suppress(tally, reason) ==
    [tally EXCEPT
        !.suppressedPairs = @ + 1,
        !.suppressionReasons =
            [r \in DOMAIN @ \cup {reason} |-> IF r \in DOMAIN @ THEN
                                                  (IF r = reason THEN @[r] + 1 ELSE @[r])
                                              ELSE 1]]

\* The category taken from the similarity as it is reported, rounded to 4
\* decimals.
CategoryOf_Reported(sim, config) ==
    IF ToFixed4(sim) >= config.highSimilarityThreshold
    THEN "almost-identical" ELSE "near-duplicate"

\* The category of a pair (similarity.js:180-181), from the unrounded cosine.
CategoryOf(sim, config) ==
    IF sim >= config.highSimilarityThreshold THEN "almost-identical" ELSE "near-duplicate"

\* One iteration of the inner loop (similarity.js:144-183).
ComparePair(tally, entryA, entryB, config) ==
    LET aTarget == entryA.component.isCompareTarget
        bTarget == entryB.component.isCompareTarget
        sim == cosine(entryA.vector, entryB.vector)
        evaluated ==
            [tally EXCEPT
                !.evaluatedPairs = @ + 1,
                !.similaritySum = @ + sim,
                !.maxSimilarity = IF sim > @ THEN sim ELSE @,
                !.bestByComponent =
                    trackBestSimilarity(trackBestSimilarity(@, entryA.component.id, sim),
                                        entryB.component.id, sim)]
        suppression == suppressPair(entryA, entryB)
        labelled == labelPair(entryA, entryB, sim, config)
        pair == [a |-> entryA.component.id, b |-> entryB.component.id,
                 similarity |-> ToFixed4(sim),
                 category |-> CategoryOf(sim, config),
                 labels |-> labelled.labels, hints |-> labelled.hints]
    IN  IF CompareFiltered(config, aTarget, bTarget) THEN Suppress(tally, "compare-filter")
        ELSE IF BelowThreshold(sim, config) THEN evaluated
        ELSE IF OverMaxThreshold(sim, config) THEN Suppress(evaluated, "over-max-threshold")
        ELSE IF shouldSkipByPath(entryA.component.filePath, entryB.component.filePath, config)
        THEN Suppress(evaluated, "near-path")
        ELSE IF suppression # NoReason THEN Suppress(evaluated, suppression)
        ELSE [evaluated EXCEPT !.pairs = Append(@, pair)]

\* pairs.sort((a, b) => b.similarity - a.similarity): a stable sort, so pairs
\* of equal similarity keep their order.
RECURSIVE InsertBySimilarity(_, _)
InsertBySimilarity(sorted, pair) ==
    IF sorted = <<>> THEN <<pair>>
    ELSE IF Head(sorted).similarity >= pair.similarity
    THEN <<Head(sorted)>> \o InsertBySimilarity(Tail(sorted), pair)
    ELSE <<pair>> \o sorted

RECURSIVE SortBySimilarity(_)
SortBySimilarity(pairs) ==
    IF pairs = <<>> THEN <<>>
    ELSE InsertBySimilarity(SortBySimilarity(SubSeq(pairs, 1, Len(pairs) - 1)),
                            pairs[Len(pairs)])

\* The filter of limitMatches (similarity.js:206-213); counts maps the ids
\* counted so far.
RECURSIVE KeepWithinLimit(_, _, _)
KeepWithinLimit(pairs, limit, counts) ==
    IF pairs = <<>> THEN <<>>
    ELSE LET pair == Head(pairs)
             aCount == IF pair.a \in DOMAIN counts THEN counts[pair.a] ELSE 0
             bCount == IF pair.b \in DOMAIN counts THEN counts[pair.b] ELSE 0
             counted == [id \in DOMAIN counts \cup {pair.a, pair.b} |->
                            IF id = pair.b THEN bCount + 1
                            ELSE IF id = pair.a THEN aCount + 1
                            ELSE counts[id]]
         IN  IF aCount >= limit \/ bCount >= limit
             THEN KeepWithinLimit(Tail(pairs), limit, counts)
             ELSE <<pair>> \o KeepWithinLimit(Tail(pairs), limit, counted)

\* limitMatches without the sort.
limitMatches_Unsorted(pairs, limit) ==
    IF limit.t # "number" THEN pairs
    ELSE KeepWithinLimit(pairs, limit.n, <<>>)

\* limitMatches(pairs, limit): limit is null, undefined or a number.
limitMatches(pairs, limit) ==
    IF limit.t # "number" THEN SortBySimilarity(pairs)
    ELSE KeepWithinLimit(SortBySimilarity(pairs), limit.n, <<>>)

\* Math.min(...values) and Math.max(...values) of a non-empty map's values.
MinValue(map) == CHOOSE v \in {map[k] : k \in DOMAIN map} : \A k \in DOMAIN map : v <= map[k]
MaxValue(map) == CHOOSE v \in {map[k] : k \in DOMAIN map} : \A k \in DOMAIN map : v >= map[k]

\* buildScorecard(...)
buildScorecard(bestByComponent, evaluatedPairs, similaritySum, maxSimilarity, suppressedPairs, suppressionReasons) ==
    LET covered == Cardinality(DOMAIN bestByComponent)
    IN  [meanSimilarity |-> IF evaluatedPairs = 0 THEN 0
                            ELSE MeanToFixed4(similaritySum, evaluatedPairs),
         maxSimilarity |-> ToFixed4(maxSimilarity),
         evaluatedPairs |-> evaluatedPairs,
         coveredComponents |-> covered,
         suppressedPairs |-> suppressedPairs,
         suppressionReasons |-> suppressionReasons,
         minBestSimilarity |-> IF covered = 0 THEN 0 ELSE ToFixed4(MinValue(bestByComponent)),
         maxBestSimilarity |-> IF covered = 0 THEN 0 ELSE ToFixed4(MaxValue(bestByComponent))]

\* The end of findSimilarities (similarity.js:187-196).
FinishSimilarities(tally, config) ==
    [pairs |-> limitMatches(tally.pairs, config.limit),
     scorecard |-> buildScorecard(tally.bestByComponent, tally.evaluatedPairs,
                                  tally.similaritySum, tally.maxSimilarity,
                                  tally.suppressedPairs, tally.suppressionReasons)]

\* The loops of findSimilarities from the pair (i, j) on.
RECURSIVE CompareFrom(_, _, _, _, _)
CompareFrom(tally, entries, config, i, j) ==
    IF i >= Len(entries) THEN tally
    ELSE IF j > Len(entries) THEN CompareFrom(tally, entries, config, i + 1, i + 2)
    ELSE CompareFrom(ComparePair(tally, entries[i], entries[j], config),
                     entries, config, i, j + 1)

\* findSimilarities(entries, config)
findSimilarities(entries, config) ==
    FinishSimilarities(CompareFrom(NoTally, entries, config, 1, 2), config)

(***************************************************************************)
(* output.js: printMatches                                                 *)
(***************************************************************************)

\* printMatches(report, config, entries, i18n): the pairs a block is printed
\* for, in order (output.js:104-106); config.limit is null or a number.
printMatches(report, config) ==
    IF Len(report.pairs) = 0 THEN <<>>
    ELSE LET limit == IF config.limit.t = "number" THEN config.limit.n
                      ELSE Len(report.pairs)
             maxPairs == Min(limit, Len(report.pairs))
         IN  SubSeq(report.pairs, 1, maxPairs)

(***************************************************************************)
(* The parts of the state a behaviour of another part leaves alone         *)
(***************************************************************************)

LcIdle ==
    /\ lcPath = NoText
    /\ lcDisk = [kind |-> "missing"]
    /\ lcResult = Undefined

FpIdle ==
    /\ fpA = [k \in Signals |-> <<>>]
    /\ fpB = fpA
    /\ fpEdits = 0
    /\ fpOut = <<>>

NoRun ==
    [pc |-> "idle", units |-> <<>>, cache |-> EmptyStore, idx |-> 1, dirty |-> FALSE,
     cleaned |-> 0, hits |-> 0, misses |-> 0, uncached |-> <<>>, entries |-> <<>>,
     calls |-> <<>>, log |-> <<>>, saves |-> 0, ticks |-> 0,
     diskAtStart |-> [kind |-> "missing"], warned |-> FALSE, result |-> Undefined]

EmIdle ==
    /\ emDisk = [kind |-> "missing"]
    /\ emFiles = {}
    /\ emConfig = [model |-> "mock"]
    /\ emRuns = 0
    /\ emRun = NoRun
    /\ emHistory = <<>>
\* findSimilarities before it is called.
NoSimRun == [pc |-> "idle", i |-> 1, j |-> 2, tally |-> NoTally, result |-> Undefined]

SimIdle ==
    /\ simEntries = <<>>
    /\ simConfig = [limit |-> Null]
    /\ simRun = NoSimRun
    /\ simPrinted = Undefined

LbIdle ==
    /\ lbA = Undefined
    /\ lbB = Undefined
    /\ lbSimilarity = 0
    /\ lbConfig = [disableAnalyses |-> <<>>]
    /\ lbResult = Undefined

PlIdle ==
    /\ plUnits = <<>>
    /\ plVec = <<>>
    /\ plEntries = Undefined
    /\ plResult = Undefined

BeIdle ==
    /\ beBackend = Undefined
    /\ beEnv = Undefined
    /\ beCalls = <<>>
    /\ beLog = <<>>

PdIdle ==
    /\ pdA = <<>>
    /\ pdB = <<>>
    /\ pdOut = Undefined

SpIdle ==
    /\ spA = Undefined
    /\ spB = Undefined
    /\ spOut = Undefined

CvIdle ==
    /\ cvVectors = Undefined
    /\ cvWeight = DEFAULT_WEIGHT
    /\ cvHasStyleSignal = FALSE
    /\ cvOut = Undefined

\* The functions that are applied on their own further below.
PureIdle == PdIdle /\ SpIdle /\ CvIdle

\* The parts that have a specification of their own further below.
RestIdle == LbIdle /\ PlIdle /\ BeIdle /\ PureIdle

(***************************************************************************)
(* fingerprintRepresentation on two argument tuples                        *)
(***************************************************************************)

\* How many signals of one tuple may be changed to obtain the other.
MaxEdits == 2


FpInit ==
    /\ mode = "fingerprint"
    /\ fpA \in [Signals -> Texts]
    /\ fpB = fpA
    /\ fpEdits = 0
    /\ fpOut = <<>>
    /\ LcIdle
    /\ EmIdle
    /\ SimIdle
    /\ RestIdle

\* A second build of the representations in which one signal differs.
FpChangeSignal ==
    /\ mode = "fingerprint"
    /\ fpOut = <<>>
    /\ fpEdits < MaxEdits
    /\ \E k \in Signals, s \in Texts :
         /\ fpB[k] = fpA[k]
         /\ s # fpA[k]
         /\ fpB' = [fpB EXCEPT ![k] = s]
    /\ fpEdits' = fpEdits + 1
    /\ UNCHANGED <<mode, fpA, fpOut, lcVars, emVars, simVars, restVars>>

\* Both tuples are fingerprinted.
FpCompute ==
    /\ mode = "fingerprint"
    /\ fpOut = <<>>
    /\ fpOut' = <<FingerprintOf(fpA), FingerprintOf(fpB)>>
    /\ UNCHANGED <<mode, fpA, fpB, fpEdits, lcVars, emVars, simVars, restVars>>

FpNext == FpChangeSignal \/ FpCompute

SpecFingerprint == FpInit /\ [][FpNext]_vars

(***************************************************************************)
(* loadCache on every kind of file                                         *)
(***************************************************************************)

CachePath == <<"c">>

\* Entries a stored file can hold.
SampleEntries ==
    {Obj(<<>>),
     Obj([k \in {<<"m", ":", "A">>} |->
            CacheEntry(<<"a">>, Arr(<<1>>), Arr(<<1>>), Arr(<<1>>), Arr(<<1>>), <<"A">>)])}

\* What decoding a file can give: null, a number, or an object with or
\* without a version and an entries field.
DecodedValues ==
    {Null, Num(7)} \cup
    [t : {"store"},
     version : {Undefined, Num(0), Num(CACHE_VERSION), Num(CACHE_VERSION + 1)},
     entries : {Undefined} \cup SampleEntries]

DiskStates ==
    {[kind |-> "missing"], [kind |-> "unreadable"], [kind |-> "garbage"]} \cup
    [kind : {"data"}, encoding : {"msgpack", "json"}, value : DecodedValues]

LcInit ==
    /\ mode = "loadCache"
    /\ lcPath \in {NoText, <<>>, CachePath}
    /\ lcDisk \in DiskStates
    /\ lcResult = Undefined
    /\ FpIdle
    /\ EmIdle
    /\ SimIdle
    /\ RestIdle

LcLoad ==
    /\ mode = "loadCache"
    /\ lcResult = Undefined
    /\ lcResult' = [t |-> "result"] @@ loadCache(lcPath, lcDisk)
    /\ UNCHANGED <<mode, lcPath, lcDisk, fpVars, emVars, simVars, restVars>>

\* The loaded store is written back, as embedComponents does at the end of a
\* run that changed it; the next run loads it again.
LcSave ==
    /\ mode = "loadCache"
    /\ lcResult # Undefined
    /\ lcDisk' = saveCache(lcPath, lcResult.store, lcDisk)
    /\ lcResult' = Undefined
    /\ UNCHANGED <<mode, lcPath, fpVars, emVars, simVars, restVars>>

LcNext == LcLoad \/ LcSave

SpecLoadCache == LcInit /\ [][LcNext]_vars

(***************************************************************************)
(* embedComponents: runs that share one cache file                         *)
(***************************************************************************)

\* How many units a run embeds, and how many runs share the cache file.
MaxUnits == 2
MaxRuns == 2

\* text.trim()
RECURSIVE TrimLeft(_)
TrimLeft(text) ==
    IF text # <<>> /\ Head(text) = " " THEN TrimLeft(Tail(text)) ELSE text
RECURSIVE TrimRight(_)
TrimRight(text) ==
    IF text # <<>> /\ text[Len(text)] = " "
    THEN TrimRight(SubSeq(text, 1, Len(text) - 1)) ELSE text
Trim(text) == TrimRight(TrimLeft(text))

\* A component as the extraction step hands it over.
Component(name, filePath) ==
    [id |-> filePath \o <<"#", name>>, name |-> name, filePath |-> filePath,
     isCompareTarget |-> FALSE, componentRefs |-> <<>>, isWrapper |-> FALSE,
     source |-> <<<<"export", name>>, <<"return", "div">>>>,
     jsxTags |-> <<"div">>, props |-> [names |-> <<>>, spreads |-> 0],
     logicTokens |-> <<>>, hooks |-> <<>>, textNodes |-> <<>>,
     literals |-> <<>>, classNames |-> <<>>]

\* The components of a run, in discovery order; a run embeds the first n.
UnitPool ==
    <<Component("A", <<"src", "/", "A.tsx">>), Component("B", <<"src", "/", "B.tsx">>),
      Component("C", <<"src", "/", "C.tsx">>), Component("D", <<"src", "/", "D.tsx">>)>>

\* A source file that was deleted after an earlier run cached its component.
GoneFile == <<"src", "/", "G.tsx">>

\* What loadStyles and buildRepresentation give for a component: two builds
\* without style whose texts concatenate to the same bytes, and one with a
\* stylesheet.
RepPlainAB ==
    [codeRep |-> <<"a", "b">>, styleRep |-> <<>>, styleText |-> <<>>,
     structureRep |-> <<"a">>, holisticRep |-> <<"a">>,
     stylePaths |-> <<>>, hasCssInJs |-> FALSE]
RepPlainA ==
    [codeRep |-> <<"a">>, styleRep |-> <<>>, styleText |-> <<>>,
     structureRep |-> <<"b", "a">>, holisticRep |-> <<"a">>,
     stylePaths |-> <<>>, hasCssInJs |-> FALSE]
RepStyled ==
    [codeRep |-> <<"b">>, styleRep |-> <<"a">>, styleText |-> <<"a">>,
     structureRep |-> <<"a">>, holisticRep |-> <<"b">>,
     stylePaths |-> <<<<"src", "/", "s.css">>>>, hasCssInJs |-> FALSE]
Reps == {RepPlainAB, RepPlainA, RepStyled}

EmModelKey == modelKey([model |-> "mock"])
KeyOf(component) == buildCacheKey(EmModelKey, component.id)

\* Cache files found before the first run: none, an unreadable one, and
\* stores written by something else: an entry for A with the fingerprint of
\* RepPlainAB but two vectors absent, the same with an empty array for the
\* code vector, the same with an empty code vector and no style vector, and
\* an entry for a component whose file is gone.
StoreWith(key, entry) ==
    [t |-> "store", version |-> Num(CACHE_VERSION), entries |-> Obj([k \in {key} |-> entry])]
EntryMissingVectors ==
    CacheEntry(FingerprintOf(RepPlainAB), Arr(BackendEmbed(RepPlainAB.codeRep)), Undefined,
               Arr(BackendEmbed(RepPlainAB.structureRep)), Undefined, UnitPool[1].filePath)
EntryEmptyCodeVec ==
    CacheEntry(FingerprintOf(RepPlainAB), Arr(<<>>), Arr(zeroVector(2)),
               Arr(BackendEmbed(RepPlainAB.structureRep)),
               Arr(BackendEmbed(RepPlainAB.holisticRep)), UnitPool[1].filePath)
EntryEmptyCodeNoStyle ==
    CacheEntry(FingerprintOf(RepPlainAB), Arr(<<>>), Undefined,
               Arr(BackendEmbed(RepPlainAB.structureRep)),
               Arr(BackendEmbed(RepPlainAB.holisticRep)), UnitPool[1].filePath)
EntryGoneFile ==
    CacheEntry(FingerprintOf(RepStyled), Arr(VecPos), Arr(VecPos), Arr(VecPos), Arr(VecPos),
               GoneFile)
InitialDisks ==
    {[kind |-> "missing"], [kind |-> "garbage"],
     [kind |-> "data", encoding |-> "msgpack",
      value |-> StoreWith(KeyOf(UnitPool[1]), EntryMissingVectors)],
     [kind |-> "data", encoding |-> "msgpack",
      value |-> StoreWith(KeyOf(UnitPool[1]), EntryEmptyCodeVec)],
     [kind |-> "data", encoding |-> "msgpack",
      value |-> StoreWith(KeyOf(UnitPool[1]), EntryEmptyCodeNoStyle)],
     [kind |-> "data", encoding |-> "msgpack",
      value |-> StoreWith(buildCacheKey(EmModelKey, GoneFile \o <<"#", "G">>), EntryGoneFile)]}

\* The keys of the entries a cache file holds.
DiskKeys(disk) ==
    IF disk.kind = "data" /\ disk.value.t = "store" /\ disk.value.entries.t = "object"
    THEN DOMAIN disk.value.entries.m ELSE {}

EmInit ==
    /\ mode = "embed"
    /\ emDisk \in InitialDisks
    /\ emFiles = {UnitPool[i].filePath : i \in 1..Len(UnitPool)}
    /\ emConfig \in [model : {"mock"}, cachePath : {NoText, CachePath},
                     cleanProbability : {0, 100}, showProgress : BOOLEAN,
                     weight : {DEFAULT_WEIGHT}]
    /\ emRuns = 0
    /\ emRun = NoRun
    /\ emHistory = [k \in DiskKeys(emDisk) |-> NoText]
    /\ FpIdle
    /\ LcIdle
    /\ SimIdle
    /\ RestIdle

\* The entry a unit contributes (similarity.js:88-104).
BuildEntry(component, rep, vectors, weight) ==
    LET hasStyleSignal == ~FalsyText(Trim(OrEmpty(rep.styleText)))
    IN  [component |-> component,
         vector |-> combineVectors(vectors, weight, hasStyleSignal),
         codeVec |-> vectors.codeVec, styleVec |-> vectors.styleVec,
         structureVec |-> vectors.structureVec, holisticVec |-> vectors.holisticVec,
         styleText |-> rep.styleText, stylePaths |-> rep.stylePaths,
         hasCssInJs |-> rep.hasCssInJs, hasStyles |-> hasStyleSignal,
         representation |-> [codeRep |-> rep.codeRep, styleRep |-> rep.styleRep,
                             structureRep |-> rep.structureRep,
                             holisticRep |-> rep.holisticRep]]

\* The tally with misses counted once per freshly embedded vector.
CountUnit_PerVector(run, cached, fingerprint, rep, id) ==
    LET fresh == Len(EmbedCalls(cached, fingerprint, rep))
    IN  IF isCompleteCachedEntry(cached, fingerprint)
        THEN [run EXCEPT !.hits = @ + 1]
        ELSE [run EXCEPT !.misses = @ + fresh, !.uncached = Append(@, id)]

\* The hit and miss tally of one unit (similarity.js:58-69).
CountUnit(run, cached, fingerprint, rep, id) ==
    IF isCompleteCachedEntry(cached, fingerprint)
    THEN [run EXCEPT !.hits = @ + 1]
    ELSE [run EXCEPT !.misses = @ + 1, !.uncached = Append(@, id)]

\* A rejected backend.embed call that is caught and the unit skipped.
EmbedRejected_SkipUnit(run, made, logItem) ==
    [run EXCEPT !.calls = @ \o made, !.log = Append(@, logItem), !.dirty = TRUE,
                !.idx = @ + 1]

\* A backend.embed call rejects: nothing catches it, so embedComponents
\* rejects at that await (similarity.js:72-85); made are the calls of the
\* unit up to and including the failing one.
EmbedRejected(run, made, logItem) ==
    [run EXCEPT !.pc = "failed", !.calls = @ \o made, !.log = Append(@, logItem),
                !.result = [t |-> "rejected"]]

\* embedComponents up to the loop (similarity.js:27-36): the cache is loaded
\* and possibly cleaned. The units are the first n components with one build
\* of their representations each; random is Math.random() in hundredths.
EmStart ==
    /\ mode = "embed"
    /\ emRun.pc \in {"idle", "done", "failed"}
    /\ emRuns < MaxRuns
    /\ \E n \in 0..MaxUnits, random \in {0, 50} :
       \E reps \in [1..n -> Reps] :
         LET loaded == loadCache(emConfig.cachePath, emDisk)
             clean == maybeCleanCache(loaded.store, emConfig, random, emFiles)
         IN  emRun' = [NoRun EXCEPT
                 !.pc = "loop",
                 !.units = [i \in 1..n |-> [component |-> UnitPool[i], rep |-> reps[i]]],
                 !.cache = clean.cache,
                 !.cleaned = clean.removed,
                 !.warned = loaded.warned,
                 !.diskAtStart = emDisk]
    /\ emRuns' = emRuns + 1
    /\ UNCHANGED <<mode, emDisk, emFiles, emConfig, emHistory, fpVars, lcVars, simVars, restVars>>

\* One iteration of the loop (similarity.js:37-114). failAt = 0: every
\* backend.embed call of the unit answers; failAt = k: the k-th call rejects
\* and embedComponents rejects with it.
EmProcessUnit ==
    /\ mode = "embed"
    /\ emRun.pc = "loop"
    /\ emRun.idx <= Len(emRun.units)
    /\ LET unit == emRun.units[emRun.idx]
           rep == unit.rep
           fingerprint == FingerprintOf(rep)
           cacheId == KeyOf(unit.component)
           cached == CachedEntry(emRun.cache, cacheId)
           cacheComplete == isCompleteCachedEntry(cached, fingerprint)
           calls == EmbedCalls(cached, fingerprint, rep)
           vectors == ResolveVectors(cached, fingerprint, rep)
           entry == BuildEntry(unit.component, rep, vectors, emConfig.weight)
           stored == CacheEntry(fingerprint, vectors.codeVec, vectors.styleVec,
                                vectors.structureVec, vectors.holisticVec,
                                unit.component.filePath)
           counted == CountUnit(emRun, cached, fingerprint, rep, unit.component.id)
           logged(made, failed) ==
               [key |-> cacheId, hit |-> cacheComplete, cached |-> cached,
                fingerprint |-> fingerprint, rep |-> rep,
                writtenFor |-> IF cacheId \in DOMAIN emHistory THEN emHistory[cacheId] ELSE NoText,
                calls |-> made, failed |-> failed]
       IN  \E failAt \in 0..Len(calls) :
             IF failAt = 0
             THEN emRun' = [counted EXCEPT
                     !.dirty = @ \/ UnitDirties(cached, fingerprint),
                     !.entries = Append(@, entry),
                     !.cache.entries.m = (cacheId :> stored) @@ @,
                     !.calls = @ \o calls,
                     !.log = Append(@, logged(calls, FALSE)),
                     !.ticks = IF emConfig.showProgress THEN @ + 1 ELSE @,
                     !.idx = @ + 1]
             ELSE emRun' = EmbedRejected(counted, SubSeq(calls, 1, failAt),
                                         logged(SubSeq(calls, 1, failAt), TRUE))
    /\ UNCHANGED <<mode, emDisk, emFiles, emConfig, emRuns, emHistory, fpVars, lcVars, simVars, restVars>>

\* After the loop (similarity.js:115-121): the cache is saved when dirty or
\* cleaned, and { entries, cacheStats } is returned.
EmFinish ==
    /\ mode = "embed"
    /\ emRun.pc = "loop"
    /\ emRun.idx > Len(emRun.units)
    /\ LET save == emRun.dirty \/ emRun.cleaned > 0
           written == save /\ ~FalsyText(emConfig.cachePath)
           codeOf(k) ==
               LET at == {i \in 1..Len(emRun.log) : emRun.log[i].key = k}
               IN  IF at # {} THEN emRun.log[CHOOSE i \in at : TRUE].rep.codeRep
                   ELSE IF k \in DOMAIN emHistory THEN emHistory[k] ELSE NoText
       IN  /\ emDisk' = IF save THEN saveCache(emConfig.cachePath, emRun.cache, emDisk)
                        ELSE emDisk
           /\ emHistory' = IF written
                           THEN [k \in DOMAIN emRun.cache.entries.m |-> codeOf(k)]
                           ELSE emHistory
           /\ emRun' = [emRun EXCEPT
                   !.pc = "done",
                   !.saves = IF save THEN @ + 1 ELSE @,
                   !.result = [t |-> "resolved", entries |-> emRun.entries,
                               cacheStats |-> [hits |-> emRun.hits, misses |-> emRun.misses,
                                               uncached |-> emRun.uncached,
                                               cleaned |-> emRun.cleaned,
                                               uncachedCount |-> Len(emRun.uncached)]]]
    /\ UNCHANGED <<mode, emFiles, emConfig, emRuns, fpVars, lcVars, simVars, restVars>>

\* Between two runs the user deletes the cache file to force a fresh scan
\* (README.md:206); the finished call's locals are gone by then.
EmDeleteCacheFile ==
    /\ mode = "embed"
    /\ emRun.pc \in {"done", "failed"}
    /\ emDisk.kind # "missing"
    /\ emDisk' = [kind |-> "missing"]
    /\ emHistory' = <<>>
    /\ emRun' = NoRun
    /\ UNCHANGED <<mode, emFiles, emConfig, emRuns, fpVars, lcVars, simVars, restVars>>

EmNext == EmStart \/ EmProcessUnit \/ EmFinish \/ EmDeleteCacheFile

SpecEmbed == EmInit /\ [][EmNext]_vars

(***************************************************************************)
(* findSimilarities on lists of embedded components                        *)
(***************************************************************************)

\* How many entries findSimilarities is given.
MaxEntries == 3

\* An entry as embedComponents returns it, for a component without styles.
SimEntry(component, vector) ==
    [component |-> component, vector |-> vector,
     codeVec |-> Arr(vector), styleVec |-> Arr(zeroVector(Len(vector))),
     structureVec |-> Arr(vector), holisticVec |-> Arr(vector),
     styleText |-> <<>>, stylePaths |-> <<>>, hasCssInJs |-> FALSE, hasStyles |-> FALSE]

\* The combined vectors of the entries: unit vectors in four directions.
VecA == <<3, 4>>
VecB == <<4, 3>>
VecC == <<5, 12>>
VecD == <<0, 1>>
VecZ == <<1, 0>>

\* The entries: four plain components (A and B in one directory), a
\* component P that renders A, a compare target T, two wrappers V and W
\* around different bases, and a plain component Z whose vector is
\* orthogonal to D's. P and T are compare targets.
SimPool ==
    <<SimEntry(Component("A", <<"src", "/", "a", "/", "A.tsx">>), VecA),
      SimEntry(Component("B", <<"src", "/", "a", "/", "B.tsx">>), VecB),
      SimEntry(Component("C", <<"lib", "/", "a", "/", "C.tsx">>), VecC),
      SimEntry(Component("D", <<"src", "/", "b", "/", "D.tsx">>), VecD),
      SimEntry([Component("P", <<"src", "/", "p", "/", "P.tsx">>) EXCEPT
                   !.componentRefs = <<"A">>, !.isCompareTarget = TRUE,
                   !.props = [names |-> <<"x">>, spreads |-> 0]], VecB),
      SimEntry([Component("T", <<"lib", "/", "t", "/", "T.tsx">>) EXCEPT
                   !.isCompareTarget = TRUE], VecA),
      SimEntry([Component("V", <<"lib", "/", "v", "/", "V.tsx">>) EXCEPT
                   !.isWrapper = TRUE, !.componentRefs = <<"Base">>,
                   !.props = [names |-> <<"x">>, spreads |-> 1]], VecA),
      SimEntry([Component("W", <<"lib", "/", "w", "/", "W.tsx">>) EXCEPT
                   !.isWrapper = TRUE, !.componentRefs = <<"Other">>], VecB),
      SimEntry(Component("Z", <<"src", "/", "z", "/", "Z.tsx">>), VecZ)>>

\* The lists of entries: up to MaxEntries different entries in any order.
SimEntryLists ==
    LET picks == UNION {[1..n -> 1..Len(SimPool)] : n \in 0..MaxEntries}
    IN  {[k \in 1..Len(s) |-> SimPool[s[k]]] :
            s \in {p \in picks : \A a, b \in 1..Len(p) : p[a] = p[b] => a = b}}

\* The defaults of the config fields findSimilarities and labelPair read.
DEFAULT_CONFIG ==
    [similarityThreshold |-> 85 * (SimOne \div 100),
     highSimilarityThreshold |-> 90 * (SimOne \div 100),
     maxSimilarityThreshold |-> Num(SimOne),
     limit |-> Null, compareGlobs |-> Arr(<<>>), minPathDistance |-> Num(0),
     disableAnalyses |-> <<>>]

\* The configs: the default threshold, a threshold of four decimals and one
\* of six that each equal the similarity of a pair of the entries; the
\* default maximum and one of six decimals just below a pair's similarity;
\* and the defaults with a high threshold of four decimals that a pair's
\* similarity rounds up to, with a limit of 2, or with minPathDistance unset,
\* null or a non-numeric string.
SimConfigs ==
    {[DEFAULT_CONFIG EXCEPT !.highSimilarityThreshold = ToFixed4(cosine(VecC, VecD))],
     [DEFAULT_CONFIG EXCEPT !.limit = Num(2)]}
    \cup {[DEFAULT_CONFIG EXCEPT !.minPathDistance = d] : d \in {Undefined, Null, Str("far")}}
    \cup
    [similarityThreshold : {DEFAULT_CONFIG.similarityThreshold,
                            cosine(VecA, VecB), cosine(VecB, VecC)},
     highSimilarityThreshold : {DEFAULT_CONFIG.highSimilarityThreshold},
     maxSimilarityThreshold : {DEFAULT_CONFIG.maxSimilarityThreshold,
                               Num(cosine(VecC, VecD))},
     limit : {Null, Num(1)},
     compareGlobs : {Arr(<<>>), Arr(<<"lib/**">>)},
     minPathDistance : {Num(0), Num(2)},
     disableAnalyses : {<<>>}]

SimInit ==
    /\ mode = "similarity"
    /\ simEntries \in SimEntryLists
    /\ simConfig \in SimConfigs
    /\ simRun = [NoSimRun EXCEPT !.pc = "loop"]
    /\ simPrinted = Undefined
    /\ FpIdle
    /\ LcIdle
    /\ EmIdle
    /\ RestIdle

\* The loops with an inner loop that starts at j = i after the first row.
SimComparePair_FromSelf ==
    /\ mode = "similarity"
    /\ simRun.pc = "loop"
    /\ simRun.i < Len(simEntries)
    /\ simRun.j <= Len(simEntries)
    /\ simRun' = [simRun EXCEPT
           !.tally = ComparePair(@, simEntries[simRun.i], simEntries[simRun.j], simConfig),
           !.i = IF simRun.j < Len(simEntries) THEN @ ELSE @ + 1,
           !.j = IF simRun.j < Len(simEntries) THEN @ + 1 ELSE simRun.i + 1]
    /\ UNCHANGED <<mode, simEntries, simConfig, simPrinted, fpVars, lcVars, emVars, restVars>>

\* One iteration of the inner loop, on the pair (i, j).
SimComparePair ==
    /\ mode = "similarity"
    /\ simRun.pc = "loop"
    /\ simRun.i < Len(simEntries)
    /\ simRun.j <= Len(simEntries)
    /\ simRun' = [simRun EXCEPT
           !.tally = ComparePair(@, simEntries[simRun.i], simEntries[simRun.j], simConfig),
           !.i = IF simRun.j < Len(simEntries) THEN @ ELSE @ + 1,
           !.j = IF simRun.j < Len(simEntries) THEN @ + 1 ELSE simRun.i + 2]
    /\ UNCHANGED <<mode, simEntries, simConfig, simPrinted, fpVars, lcVars, emVars, restVars>>

\* After the loops: the pairs are limited and the scorecard is built.
SimFinish ==
    /\ mode = "similarity"
    /\ simRun.pc = "loop"
    /\ ~(simRun.i < Len(simEntries) /\ simRun.j <= Len(simEntries))
    /\ simRun' = [simRun EXCEPT
           !.pc = "done",
           !.result = FinishSimilarities(simRun.tally, simConfig)]
    /\ UNCHANGED <<mode, simEntries, simConfig, simPrinted, fpVars, lcVars, emVars, restVars>>

\* emitReport(entries, pairs, config, stats) with the pairs findSimilarities
\* returned: the console's top matches section.
SimEmitReport ==
    /\ mode = "similarity"
    /\ simRun.pc = "done"
    /\ simPrinted = Undefined
    /\ simPrinted' = Arr(printMatches([pairs |-> simRun.result.pairs], simConfig))
    /\ UNCHANGED <<mode, simEntries, simConfig, simRun, fpVars, lcVars, emVars, restVars>>

SimNext == SimComparePair \/ SimFinish \/ SimEmitReport

SpecSim == SimInit /\ [][SimNext]_vars

(***************************************************************************)
(* labelPair on pairs of entries                                           *)
(***************************************************************************)

\* The labels labelPair can give, in the order of its checks.
LabelKinds ==
    <<"wrapper-duplicate", "style-duplicate", "logic-duplicate", "copy-paste-variant",
      "prop-parameterizable", "forked-clone">>

\* The values of config.disableAnalyses: every selection of the labels.
DisableLists ==
    {SelectSeq(LabelKinds, LAMBDA l : l \in chosen) : chosen \in SUBSET SetOf(LabelKinds)}

\* An entry with a style signal: its component has an empty source.
StyledEntry(name, styleVec, stylePaths, hasCssInJs) ==
    [SimEntry([Component(name, <<"src", "/", name, ".tsx">>) EXCEPT !.source = <<>>], VecA)
        EXCEPT !.styleVec = Arr(styleVec), !.stylePaths = stylePaths,
               !.hasCssInJs = hasCssInJs, !.hasStyles = TRUE]

\* The entries labelPair is given: a plain component and one four lines
\* longer (both with a style vector but no style signal), two wrappers with
\* the same logic, two components with a named prop, two with only a spread
\* prop, and five styled ones (two that share one stylesheet, one with
\* CSS-in-JS, one with a stylesheet of its own, one styled differently).
LabelPool ==
    <<[SimEntry(Component("A", <<"src", "/", "A.tsx">>), VecA) EXCEPT !.styleVec = Arr(VecA)],
      [SimEntry([Component("B", <<"src", "/", "B.tsx">>) EXCEPT
                    !.source = @ \o <<<<"if", "b">>, <<"for", "b">>, <<"let", "b">>,
                                      <<"end">>>>], VecB)
          EXCEPT !.styleVec = Arr(VecB)],
      SimEntry([Component("V", <<"src", "/", "V.tsx">>) EXCEPT
                   !.isWrapper = TRUE, !.logicTokens = <<"toggle", "fetch">>,
                   !.literals = <<"primary", "yes">>], VecA),
      SimEntry([Component("W", <<"src", "/", "W.tsx">>) EXCEPT
                   !.isWrapper = TRUE, !.logicTokens = <<"toggle", "fetch">>,
                   !.literals = <<"primary", "no">>], VecB),
      SimEntry([Component("P", <<"src", "/", "P.tsx">>) EXCEPT
                   !.props = [names |-> <<"variant">>, spreads |-> 0]], VecA),
      SimEntry([Component("T", <<"src", "/", "T.tsx">>) EXCEPT
                   !.props = [names |-> <<"variant">>, spreads |-> 0]], VecB),
      SimEntry([Component("C", <<"src", "/", "C.tsx">>) EXCEPT
                   !.props = [names |-> <<>>, spreads |-> 1]], VecA),
      SimEntry([Component("D", <<"src", "/", "D.tsx">>) EXCEPT
                   !.props = [names |-> <<>>, spreads |-> 1]], VecB),
      StyledEntry("S1", VecA, <<"shared.css">>, FALSE),
      StyledEntry("S2", VecB, <<"shared.css">>, FALSE),
      StyledEntry("S3", VecA, <<"shared.css">>, TRUE),
      StyledEntry("S4", VecA, <<"shared.css", "other.css">>, FALSE),
      StyledEntry("S5", <<1, 0>>, <<"b.css">>, FALSE)>>

\* The similarities labelPair is given: 0.5 and the values at and just below
\* the thresholds 0.85 and 0.9, and 0.95.
LabelSimilarities ==
    {50 * (SimOne \div 100), DEFAULT_CONFIG.similarityThreshold - 1,
     DEFAULT_CONFIG.similarityThreshold, DEFAULT_CONFIG.highSimilarityThreshold - 1,
     DEFAULT_CONFIG.highSimilarityThreshold, 95 * (SimOne \div 100)}

LbInit ==
    /\ mode = "labels"
    /\ \E a, b \in 1..Len(LabelPool) :
          /\ a < b
          /\ lbA = LabelPool[a]
          /\ lbB = LabelPool[b]
    /\ lbSimilarity \in LabelSimilarities
    /\ lbConfig \in {[DEFAULT_CONFIG EXCEPT !.disableAnalyses = d] : d \in DisableLists}
    /\ lbResult = Undefined
    /\ FpIdle
    /\ LcIdle
    /\ EmIdle
    /\ SimIdle
    /\ PlIdle
    /\ BeIdle
    /\ PureIdle

\* The call labelPair(entryA, entryB, similarity, config).
LbLabelPair ==
    /\ mode = "labels"
    /\ lbResult = Undefined
    /\ lbResult' = labelPair(lbA, lbB, lbSimilarity, lbConfig)
    /\ UNCHANGED <<mode, lbA, lbB, lbSimilarity, lbConfig, fpVars, lcVars, emVars, simVars,
                   plVars, beVars, pureVars>>

LbNext == LbLabelPair

SpecLabel == LbInit /\ [][LbNext]_vars

(***************************************************************************)
(* A scan of two units: embedComponents through a backend that returns one *)
(* vector for every input, without a cache, then findSimilarities          *)
(***************************************************************************)

\* The four vectors of a unit that has no cached entry when every
\* backend.embed call answers vec (similarity.js:71-87).
FixedVectors(vec, rep) ==
    LET codeVec == Arr(vec)
        dimension == Max(1, Len(codeVec.v))
    IN  [codeVec |-> codeVec,
         styleVec |-> IF FalsyText(rep.styleRep) THEN Arr(zeroVector(dimension)) ELSE Arr(vec),
         structureVec |-> Arr(vec), holisticVec |-> Arr(vec)]

\* The components of a scan: two plain ones, two tiny ones with one prop,
\* one with a prop and three logic tokens, and one that renders A.
ScanPool ==
    <<Component("A", <<"src", "/", "a", "/", "A.tsx">>),
      Component("B", <<"src", "/", "b", "/", "B.tsx">>),
      [Component("C", <<"src", "/", "c", "/", "C.tsx">>) EXCEPT
          !.props = [names |-> <<"label">>, spreads |-> 0]],
      [Component("D", <<"src", "/", "d", "/", "D.tsx">>) EXCEPT
          !.props = [names |-> <<"label">>, spreads |-> 0]],
      [Component("T", <<"src", "/", "t", "/", "T.tsx">>) EXCEPT
          !.props = [names |-> <<"label">>, spreads |-> 0],
          !.logicTokens = <<"toggle", "fetch", "map">>],
      [Component("P", <<"src", "/", "p", "/", "P.tsx">>) EXCEPT !.componentRefs = <<"A">>]>>

\* The vectors a fixed backend may return.
ScanVectors == {VecPos, VecNeg, VecC}

ScanInit ==
    /\ mode = "scan"
    /\ \E a, b \in 1..Len(ScanPool), repA, repB \in Reps :
          /\ a # b
          /\ plUnits = <<[component |-> ScanPool[a], rep |-> repA],
                         [component |-> ScanPool[b], rep |-> repB]>>
    /\ plVec \in ScanVectors
    /\ plEntries = Undefined
    /\ plResult = Undefined
    /\ FpIdle
    /\ LcIdle
    /\ EmIdle
    /\ SimIdle
    /\ LbIdle
    /\ BeIdle
    /\ PureIdle

\* embedComponents(components, backend, config) with config.cachePath unset:
\* every unit is a miss and nothing is saved.
ScanEmbed ==
    /\ mode = "scan"
    /\ plEntries = Undefined
    /\ plEntries' = Arr([i \in 1..Len(plUnits) |->
                        BuildEntry(plUnits[i].component, plUnits[i].rep,
                                   FixedVectors(plVec, plUnits[i].rep), DEFAULT_WEIGHT)])
    /\ UNCHANGED <<mode, plUnits, plVec, plResult, fpVars, lcVars, emVars, simVars, lbVars,
                   beVars, pureVars>>

\* findSimilarities(entries, config) with the default config.
ScanFind ==
    /\ mode = "scan"
    /\ plEntries # Undefined
    /\ plResult = Undefined
    /\ plResult' = findSimilarities(plEntries.v, DEFAULT_CONFIG)
    /\ UNCHANGED <<mode, plUnits, plVec, plEntries, fpVars, lcVars, emVars, simVars, lbVars,
                   beVars, pureVars>>

ScanNext == ScanEmbed \/ ScanFind

SpecScan == ScanInit /\ [][ScanNext]_vars

(***************************************************************************)
(* LocalEmbeddingBackend: embed calls on one instance                      *)
(***************************************************************************)

\* How many embed calls are made on the instance.
MaxCalls == 3

\* The instance after the constructor (local.js constructor): no promise is
\* stored yet.
NewBackend(autoDownloadModel) ==
    [autoDownloadModel |-> autoDownloadModel,
     pipelinePromise |-> "null", modelReadyPromise |-> "null"]

\* What is outside the instance: whether the model directory holds the
\* model, and the state of the promise ensureModel returned and of the
\* promise pipeline() returned.
NewEnv(modelPresent) == [modelPresent |-> modelPresent, ready |-> "none", pipeline |-> "none"]

BeInit ==
    /\ mode = "backend"
    /\ \E autoDownloadModel \in BOOLEAN : beBackend = NewBackend(autoDownloadModel)
    /\ \E modelPresent \in BOOLEAN : beEnv = NewEnv(modelPresent)
    /\ beCalls = <<>>
    /\ beLog = <<>>
    /\ FpIdle
    /\ LcIdle
    /\ EmIdle
    /\ SimIdle
    /\ LbIdle
    /\ PlIdle
    /\ PureIdle

\* ensureModelReady(), run by a new embed call up to its first await: the
\* stored promise if there is one; else ensureModel is started and its
\* promise stored; else assertLocalModelExists runs, and its result is stored
\* as a resolved promise unless it throws, in which case nothing is stored
\* and the call rejects.
BeEmbed ==
    /\ mode = "backend"
    /\ Len(beCalls) < MaxCalls
    /\ IF beBackend.modelReadyPromise # "null"
       THEN /\ beCalls' = Append(beCalls, [pc |-> "awaitReady", awaits |-> "stored"])
            /\ UNCHANGED <<beBackend, beEnv, beLog>>
       ELSE IF beBackend.autoDownloadModel
       THEN /\ beBackend' = [beBackend EXCEPT !.modelReadyPromise = "set"]
            /\ beEnv' = [beEnv EXCEPT !.ready = "pending"]
            /\ beLog' = Append(beLog, "ensureModel")
            /\ beCalls' = Append(beCalls, [pc |-> "awaitReady", awaits |-> "stored"])
       ELSE IF beEnv.modelPresent
       THEN /\ beBackend' = [beBackend EXCEPT !.modelReadyPromise = "set"]
            /\ beEnv' = [beEnv EXCEPT !.ready = "resolved"]
            /\ beLog' = beLog \o <<"assertLocalModelExists", "ready">>
            /\ beCalls' = Append(beCalls, [pc |-> "awaitReady", awaits |-> "stored"])
       ELSE /\ beLog' = Append(beLog, "assertLocalModelExists")
            /\ beCalls' = Append(beCalls, [pc |-> "rejected", awaits |-> "own"])
            /\ UNCHANGED <<beBackend, beEnv>>
    /\ UNCHANGED <<mode, fpVars, lcVars, emVars, simVars, lbVars, plVars, pureVars>>

\* The promise of ensureModel settles: the files are there or were
\* downloaded, or a download failed.
BeModelSettles ==
    /\ mode = "backend"
    /\ beEnv.ready = "pending"
    /\ \E ok \in BOOLEAN :
          /\ beEnv' = [beEnv EXCEPT !.ready = IF ok THEN "resolved" ELSE "rejected"]
          /\ beLog' = IF ok THEN Append(beLog, "ready") ELSE beLog
    /\ UNCHANGED <<mode, beBackend, beCalls, fpVars, lcVars, emVars, simVars, lbVars, plVars, pureVars>>

\* An embed call resumes after await this.ensureModelReady(): it rejects with
\* the promise, or calls loadPipeline(), which returns the stored promise or
\* creates the pipeline and stores its promise.
BeLoadPipeline ==
    /\ mode = "backend"
    /\ \E c \in 1..Len(beCalls) :
          /\ beCalls[c].pc = "awaitReady"
          /\ beEnv.ready \in {"resolved", "rejected"}
          /\ IF beEnv.ready = "rejected"
             THEN /\ beCalls' = [beCalls EXCEPT ![c].pc = "rejected"]
                  /\ UNCHANGED <<beBackend, beEnv, beLog>>
             ELSE IF beBackend.pipelinePromise # "null"
             THEN /\ beCalls' = [beCalls EXCEPT ![c].pc = "awaitPipeline"]
                  /\ UNCHANGED <<beBackend, beEnv, beLog>>
             ELSE /\ beBackend' = [beBackend EXCEPT !.pipelinePromise = "set"]
                  /\ beEnv' = [beEnv EXCEPT !.pipeline = "pending"]
                  /\ beLog' = Append(beLog, "pipeline")
                  /\ beCalls' = [beCalls EXCEPT ![c].pc = "awaitPipeline"]
    /\ UNCHANGED <<mode, fpVars, lcVars, emVars, simVars, lbVars, plVars, pureVars>>

\* The promise of pipeline('feature-extraction', ...) settles.
BePipelineSettles ==
    /\ mode = "backend"
    /\ beEnv.pipeline = "pending"
    /\ \E ok \in BOOLEAN :
          beEnv' = [beEnv EXCEPT !.pipeline = IF ok THEN "resolved" ELSE "rejected"]
    /\ UNCHANGED <<mode, beBackend, beCalls, beLog, fpVars, lcVars, emVars, simVars, lbVars,
                   plVars, pureVars>>

\* An embed call resumes after await this.loadPipeline(): it rejects with the
\* promise, or runs the pipe on its text and returns the normalized vector.
BeReturn ==
    /\ mode = "backend"
    /\ \E c \in 1..Len(beCalls) :
          /\ beCalls[c].pc = "awaitPipeline"
          /\ beEnv.pipeline \in {"resolved", "rejected"}
          /\ beCalls' = [beCalls EXCEPT
                 ![c].pc = IF beEnv.pipeline = "resolved" THEN "done" ELSE "rejected"]
    /\ UNCHANGED <<mode, beBackend, beEnv, beLog, fpVars, lcVars, emVars, simVars, lbVars,
                   plVars, pureVars>>

BeNext == BeEmbed \/ BeModelSettles \/ BeLoadPipeline \/ BePipelineSettles \/ BeReturn

SpecBackend == BeInit /\ [][BeNext]_vars

(***************************************************************************)
(* pathDistance on two file paths                                          *)
(***************************************************************************)

\* File paths: without a directory, one to three directories deep, in the
\* same and in different directories, with backslashes, and not passed.
PathPool ==
    {NoText,
     <<"A.tsx">>,
     <<"src", "/", "A.tsx">>,
     <<"src", "/", "a", "/", "A.tsx">>,
     <<"src", "/", "a", "/", "B.tsx">>,
     <<"src", "\\", "a", "\\", "C.tsx">>,
     <<"src", "/", "b", "/", "B.tsx">>,
     <<"lib", "/", "a", "/", "A.tsx">>,
     <<"a", "/", "A.tsx">>,
     <<"src", "/", "a", "/", "x", "/", "A.tsx">>,
     <<"/", "src", "/", "/", "a", "/", "D.tsx">>}

PdInit ==
    /\ mode = "path"
    /\ pdA \in PathPool
    /\ pdB \in PathPool
    /\ pdOut = Undefined
    /\ FpIdle
    /\ LcIdle
    /\ EmIdle
    /\ SimIdle
    /\ LbIdle
    /\ PlIdle
    /\ BeIdle
    /\ SpIdle
    /\ CvIdle

\* The call pathDistance(pathA, pathB).
PdPathDistance ==
    /\ mode = "path"
    /\ pdOut = Undefined
    /\ pdOut' = Num(pathDistance(pdA, pdB))
    /\ UNCHANGED <<mode, pdA, pdB, fpVars, lcVars, emVars, simVars, lbVars, plVars, beVars,
                   spVars, cvVars>>

PdNext == PdPathDistance

SpecPath == PdInit /\ [][PdNext]_vars

(***************************************************************************)
(* suppressPair on two entries                                             *)
(***************************************************************************)

\* A component marked as a wrapper by the extraction step.
Wrapper(name, componentRefs, jsxTags) ==
    [Component(name, <<"src", "/", name, ".tsx">>) EXCEPT
        !.isWrapper = TRUE, !.componentRefs = componentRefs, !.jsxTags = jsxTags]

\* The components: wrappers around Base and around Other; a wrapper around
\* Base and Icon with one logic token and mostly span tags; a wrapper with
\* logic, a hook and a class name; a small component with one prop around a
\* button; wrappers without tags with four text nodes and with seven
\* literals; a plain component; a plain component with logic and class
\* names; a wrapper that renders W1; and a wrapper of seventeen lines.
SuppressPool ==
    <<Wrapper("W1", <<"Base">>, <<"div">>),
      Wrapper("W2", <<"Other">>, <<"div">>),
      [Wrapper("W3", <<"Base", "Icon">>, <<"span", "span", "div">>) EXCEPT
          !.logicTokens = <<"toggle">>],
      [Wrapper("W4", <<>>, <<"div">>) EXCEPT
          !.logicTokens = <<"toggle", "fetch">>, !.hooks = <<"useState">>,
          !.classNames = <<"box">>],
      [Component("W5", <<"src", "/", "W5.tsx">>) EXCEPT
          !.props = [names |-> <<"label">>, spreads |-> 0], !.jsxTags = <<"button">>],
      [Wrapper("W6", <<>>, <<>>) EXCEPT !.textNodes = <<"a", "b", "c", "d">>],
      [Wrapper("W7", <<>>, <<>>) EXCEPT !.literals = <<"1", "2", "3", "4", "5", "6", "7">>],
      Component("P", <<"src", "/", "P.tsx">>),
      [Component("Q", <<"src", "/", "Q.tsx">>) EXCEPT
          !.logicTokens = <<"toggle", "fetch", "map">>, !.classNames = <<"box", "row">>],
      Wrapper("C", <<"W1">>, <<"div">>),
      [Wrapper("L", <<"Base">>, <<"section">>) EXCEPT
          !.source = [i \in 1..17 |-> <<"line">>]]>>

SpInit ==
    /\ mode = "suppress"
    /\ \E a, b \in 1..Len(SuppressPool) :
          /\ a # b
          /\ spA = [component |-> SuppressPool[a]]
          /\ spB = [component |-> SuppressPool[b]]
    /\ spOut = Undefined
    /\ FpIdle
    /\ LcIdle
    /\ EmIdle
    /\ SimIdle
    /\ LbIdle
    /\ PlIdle
    /\ BeIdle
    /\ PdIdle
    /\ CvIdle

\* The call suppressPair(entryA, entryB); null is Str(NoReason).
SpSuppressPair ==
    /\ mode = "suppress"
    /\ spOut = Undefined
    /\ spOut' = Str(suppressPair(spA, spB))
    /\ UNCHANGED <<mode, spA, spB, fpVars, lcVars, emVars, simVars, lbVars, plVars, beVars,
                   pdVars, cvVars>>

SpNext == SpSuppressPair

SpecSuppress == SpInit /\ [][SpNext]_vars

(***************************************************************************)
(* combineVectors on four vectors and a weight                             *)
(***************************************************************************)

\* The vectors of each part: empty, of two and of three elements; a zero
\* vector for style; none at all for holistic.
CvCodeVectors == {Arr(<<>>), Arr(<<3, 4>>), Arr(<<0, 5, 12>>)}
CvStyleVectors == {Arr(<<>>), Arr(<<0, 0>>), Arr(<<4, 3>>), Arr(<<1, 0, 0>>)}
CvStructureVectors == {Arr(<<>>), Arr(<<3, 4>>), Arr(<<1, 2, 2>>)}
CvHolisticVectors == {Undefined, Arr(<<4, 3>>)}
\* The weights, in hundredths: the defaults, 0, a larger style weight and a
\* negative holistic weight.
CvStyleWeights == {DEFAULT_WEIGHT.style, 0, 70}
CvWeights ==
    [code : {DEFAULT_WEIGHT.code, 0}, style : CvStyleWeights,
     structure : {DEFAULT_WEIGHT.structure, 0}, holistic : {DEFAULT_WEIGHT.holistic, -10}]

CvInit ==
    /\ mode = "combine"
    /\ cvVectors \in [codeVec : CvCodeVectors, styleVec : CvStyleVectors,
                       structureVec : CvStructureVectors, holisticVec : CvHolisticVectors]
    /\ cvWeight \in CvWeights
    /\ cvHasStyleSignal \in BOOLEAN
    /\ cvOut = Undefined
    /\ FpIdle
    /\ LcIdle
    /\ EmIdle
    /\ SimIdle
    /\ LbIdle
    /\ PlIdle
    /\ BeIdle
    /\ PdIdle
    /\ SpIdle

\* The call combineVectors(vectors, weight, { hasStyleSignal }).
CvCombineVectors ==
    /\ mode = "combine"
    /\ cvOut = Undefined
    /\ cvOut' = Arr(combineVectors(cvVectors, cvWeight, cvHasStyleSignal))
    /\ UNCHANGED <<mode, cvVectors, cvWeight, cvHasStyleSignal, fpVars, lcVars, emVars,
                   simVars, lbVars, plVars, beVars, pdVars, spVars>>

CvNext == CvCombineVectors

SpecCombine == CvInit /\ [][CvNext]_vars

(***************************************************************************)
(* Claims about loadCache                                                  *)
(***************************************************************************)

\* The cases of the claim, read off the arguments and the file.
LcPathUnset == FalsyText(lcPath)
LcFileMissing == lcDisk.kind = "missing"
LcUndecodable == lcDisk.kind \in {"unreadable", "garbage"}
LcDecodedIsStore == lcDisk.kind = "data" /\ lcDisk.value.t = "store"
LcWrongVersionOrNoEntries ==
    /\ LcDecodedIsStore
    /\ \/ lcDisk.value.version # Num(CACHE_VERSION)
       \/ lcDisk.value.entries = Undefined
LcCurrentStore ==
    /\ ~LcPathUnset
    /\ LcDecodedIsStore
    /\ lcDisk.value.version = Num(CACHE_VERSION)
    /\ lcDisk.value.entries # Undefined
LcCalled == lcResult # Undefined

EmLogged == {emRun.log[i] : i \in 1..Len(emRun.log)}

\* C1: a unit is counted as a hit only if the entry under its key has the
\* fingerprint of its current representations and four non-empty vectors,
\* and then the backend is not called for it; so a unit whose codeRep differs
\* from the one its cache entry was written for is never counted as a hit.
C1_HitOnlyOnMatchingFingerprint ==
    \A item \in EmLogged :
        /\ item.hit =>
             /\ item.cached # Undefined
             /\ item.cached.fingerprint = FingerprintOf(item.rep)
             /\ \A i \in 1..Len(VecKeys) : NonEmptyArray(item.cached[VecKeys[i]])
             /\ item.calls = <<>>
        /\ (item.writtenFor # NoText /\ item.writtenFor # item.rep.codeRep) => ~item.hit

\* C7: if a backend.embed call fails, embedComponents rejects: no entries are
\* returned, the unit is not skipped and no later unit is processed, the
\* failed call is not repeated, and saveCache is not called, so the cache
\* file is as it was when the run started.
C7_BackendFailureAbortsRun ==
    (\E item \in EmLogged : item.failed) =>
        /\ emRun.pc = "failed"
        /\ emRun.result = [t |-> "rejected"]
        /\ Len(emRun.log) = emRun.idx
        /\ Len(emRun.entries) = emRun.idx - 1
        /\ \A i \in 1..Len(emRun.log) : emRun.log[i].failed <=> i = emRun.idx
        /\ LET made == emRun.log[emRun.idx].calls
           IN  /\ made # <<>>
               /\ \A i, j \in 1..Len(made) : made[i].signal = made[j].signal => i = j
        /\ emRun.saves = 0
        /\ emDisk = emRun.diskAtStart

\* The second unit's backend call failed after the first unit had set dirty,
\* with a cache path configured and a cache file on disk.
C7_Witness ==
    /\ emRun.pc = "failed"
    /\ emRun.idx = 2
    /\ emRun.dirty
    /\ emRun.cleaned > 0
    /\ ~FalsyText(emConfig.cachePath)
    /\ emDisk.kind = "data"

\* C10: every processed unit is counted in exactly one of hits and misses,
\* a miss counts once however many vectors are embedded for it, and the
\* returned uncachedCount equals misses and the number of ids listed.
C10_HitsPlusMissesIsUnitCount ==
    LET hitItems == {i \in 1..Len(emRun.log) : emRun.log[i].hit}
        missItems == {i \in 1..Len(emRun.log) : ~emRun.log[i].hit}
    IN  /\ emRun.hits = Cardinality(hitItems)
        /\ emRun.misses = Cardinality(missItems)
        /\ emRun.hits + emRun.misses = Len(emRun.log)
        /\ emRun.misses = Len(emRun.uncached)
        /\ \A i \in missItems :
             \E j \in 1..Len(emRun.uncached) :
               buildCacheKey(EmModelKey, emRun.uncached[j]) = emRun.log[i].key
        /\ emRun.pc = "done" =>
             /\ emRun.result.cacheStats.hits + emRun.result.cacheStats.misses
                  = Len(emRun.units)
             /\ emRun.result.cacheStats.uncachedCount = emRun.result.cacheStats.misses
             /\ emRun.result.cacheStats.uncachedCount
                  = Len(emRun.result.cacheStats.uncached)

\* A finished run with one hit and one miss, the miss having embedded three
\* vectors.
C10_Witness ==
    /\ emRun.pc = "done"
    /\ emRun.hits = 1
    /\ emRun.misses = 1
    /\ \E item \in EmLogged : ~item.hit /\ Len(item.calls) = 3

\* C9: two argument tuples that differ in at least one signal never get the
\* same fingerprint (the digest itself being collision-free).
C9_DistinctTuplesDistinctFingerprints ==
    (fpOut # <<>> /\ fpA # fpB) => fpOut[1] # fpOut[2]

(***************************************************************************)
(* Claims about findSimilarities                                           *)
(***************************************************************************)

SimDone == simRun.pc = "done"

\* The pairs findSimilarities returned, and those it accepted before
\* limitMatches.
SimReturned == IF SimDone THEN simRun.result.pairs ELSE <<>>
SimAccepted == simRun.tally.pairs

\* The entry of a pair's unit id, and the unrounded cosine of a pair.
SimEntryOf(id) == CHOOSE e \in SetOf(simEntries) : e.component.id = id
RawSimilarity(pair) == cosine(SimEntryOf(pair.a).vector, SimEntryOf(pair.b).vector)

\* A step that runs one iteration of the inner loop, and the two entries and
\* the cosine of that iteration.
SimCompareStep == simRun.pc = "loop" /\ simRun'.pc = "loop" /\ simRun' # simRun
SimLeft == simEntries[simRun.i]
SimRight == simEntries[simRun.j]
SimCosine == cosine(SimLeft.vector, SimRight.vector)

\* Compare mode, and whether two entries are one target and one non-target.
SimCompareMode == simConfig.compareGlobs.t = "array" /\ Len(simConfig.compareGlobs.v) > 0
SimMixed(entryA, entryB) ==
    entryA.component.isCompareTarget # entryB.component.isCompareTarget

\* The count of a reason in a map of suppression reasons.
ReasonCount(reasons, reason) == IF reason \in DOMAIN reasons THEN reasons[reason] ELSE 0

\* The fourth decimal of a similarity.
FourthDecimal == SimOne \div 10000

\* An iteration goes past the threshold gate exactly when its cosine is not
\* strictly below similarityThreshold: it then adds a pair or a suppression.
C2_ThresholdGateStep ==
    (SimCompareStep /\ (SimCompareMode => SimMixed(SimLeft, SimRight))) =>
        LET passed == \/ Len(simRun'.tally.pairs) = Len(simRun.tally.pairs) + 1
                      \/ simRun'.tally.suppressedPairs = simRun.tally.suppressedPairs + 1
        IN  passed <=> SimCosine >= simConfig.similarityThreshold

\* C2 as stated: the reported (4-decimal) similarity of every returned pair is
\* at least similarityThreshold and exceeds maxSimilarityThreshold by at most
\* 1e-6, and the threshold gate rejects only a cosine strictly below the
\* threshold.
C2_ReportedSimilarityWithinThresholds ==
    /\ [](\A k \in 1..Len(SimReturned) :
            /\ SimReturned[k].similarity >= simConfig.similarityThreshold
            /\ SimReturned[k].similarity - maxThreshold(simConfig) <= Epsilon)
    /\ [][C2_ThresholdGateStep]_vars

\* C2 amended: the gates compare the unrounded cosine. Every returned pair has
\* a cosine at least similarityThreshold that exceeds maxSimilarityThreshold
\* by at most 1e-6, and reports that cosine rounded to 4 decimals; so the
\* reported value is within half a fourth decimal of both bounds, and meets
\* a bound that itself has at most 4 decimals. The threshold gate rejects
\* only a cosine strictly below the threshold.
C2_CosineWithinThresholds ==
    /\ [](\A k \in 1..Len(SimReturned) :
            LET pair == SimReturned[k]
                raw == RawSimilarity(pair)
                max == maxThreshold(simConfig)
            IN  /\ raw >= simConfig.similarityThreshold
                /\ raw - max <= Epsilon
                /\ pair.similarity % FourthDecimal = 0
                /\ 2 * Abs(pair.similarity - raw) <= FourthDecimal
                /\ simConfig.similarityThreshold % FourthDecimal = 0
                     => pair.similarity >= simConfig.similarityThreshold
                /\ max % FourthDecimal = 0 => pair.similarity - max <= Epsilon)
    /\ [][C2_ThresholdGateStep]_vars

\* A returned pair whose cosine equals a threshold of six decimals and whose
\* reported similarity is below that threshold.
C2_Witness ==
    /\ SimDone
    /\ \E k \in 1..Len(SimReturned) :
         /\ RawSimilarity(SimReturned[k]) = simConfig.similarityThreshold
         /\ SimReturned[k].similarity < simConfig.similarityThreshold

\* One component renders the other.
Composes(compA, compB) ==
    \/ \E k \in 1..Len(compA.componentRefs) : compA.componentRefs[k] = compB.name
    \/ \E k \in 1..Len(compB.componentRefs) : compB.componentRefs[k] = compA.name

\* An iteration on a composing pair that passes the four gates before
\* suppressPair adds no pair and counts one suppression, under
\* 'component-composition' alone.
C3_CompositionStep ==
    (/\ SimCompareStep
     /\ SimCompareMode => SimMixed(SimLeft, SimRight)
     /\ SimCosine >= simConfig.similarityThreshold
     /\ SimCosine - maxThreshold(simConfig) <= Epsilon
     /\ ~shouldSkipByPath(SimLeft.component.filePath, SimRight.component.filePath, simConfig)
     /\ Composes(SimLeft.component, SimRight.component))
    => LET before == simRun.tally.suppressionReasons
           after == simRun'.tally.suppressionReasons
       IN  /\ simRun'.tally.pairs = simRun.tally.pairs
           /\ simRun'.tally.suppressedPairs = simRun.tally.suppressedPairs + 1
           /\ ReasonCount(after, "component-composition")
                = ReasonCount(before, "component-composition") + 1
           /\ \A r \in (DOMAIN before \cup DOMAIN after) \ {"component-composition"} :
                ReasonCount(after, r) = ReasonCount(before, r)

\* C3: a pair of which one unit's componentRefs holds the other's name is
\* never among the accepted or returned pairs, and when it passes the
\* compare, threshold, max-threshold and path gates it adds exactly 1 to
\* suppressedPairs and to suppressionReasons['component-composition'] and to
\* no other reason.
C3_CompositionSuppressedOnce ==
    /\ [](\A pair \in SetOf(SimAccepted) \cup SetOf(SimReturned) :
            ~Composes(SimEntryOf(pair.a).component, SimEntryOf(pair.b).component))
    /\ [][C3_CompositionStep]_vars

\* The second entry renders the first, their pair passed the gates and was
\* counted under 'component-composition', and another pair was returned.
C3_Witness ==
    /\ SimDone
    /\ Len(simEntries) = 3
    /\ \E k \in 1..Len(simEntries[2].component.componentRefs) :
         simEntries[2].component.componentRefs[k] = simEntries[1].component.name
    /\ ReasonCount(simRun.result.scorecard.suppressionReasons, "component-composition") = 1
    /\ Len(SimReturned) > 0

\* The index pairs (i, j), i < j, of the entries, and those whose entries are
\* both targets or both non-targets.
SimIndexPairs == {p \in (1..Len(simEntries)) \X (1..Len(simEntries)) : p[1] < p[2]}
SimUnmixed == {p \in SimIndexPairs : ~SimMixed(simEntries[p[1]], simEntries[p[2]])}

\* C4: in compare mode every returned pair has exactly one compare target,
\* every pair with two or no targets is counted once under 'compare-filter'
\* and not in evaluatedPairs; outside compare mode nothing is ever counted
\* under 'compare-filter'.
C4_CompareModeFilter ==
    /\ SimCompareMode =>
         /\ \A pair \in SetOf(SimAccepted) \cup SetOf(SimReturned) :
              SimMixed(SimEntryOf(pair.a), SimEntryOf(pair.b))
         /\ SimDone =>
              /\ ReasonCount(simRun.result.scorecard.suppressionReasons, "compare-filter")
                   = Cardinality(SimUnmixed)
              /\ simRun.result.scorecard.evaluatedPairs
                   = Cardinality(SimIndexPairs) - Cardinality(SimUnmixed)
    /\ ~SimCompareMode =>
         /\ "compare-filter" \notin DOMAIN simRun.tally.suppressionReasons
         /\ SimDone => simRun.result.scorecard.evaluatedPairs = Cardinality(SimIndexPairs)

\* Compare mode with a pair of two non-targets filtered and a pair of a target
\* and a non-target returned.
C4_Witness ==
    /\ SimDone
    /\ SimCompareMode
    /\ \E p \in SimUnmixed : ~simEntries[p[1]].component.isCompareTarget
    /\ ReasonCount(simRun.result.scorecard.suppressionReasons, "compare-filter") > 0
    /\ Len(SimReturned) > 0

\* How often a unit id occurs in a list of pairs.
Occurrences(pairs, id) == Cardinality({k \in 1..Len(pairs) : id \in {pairs[k].a, pairs[k].b}})

\* C5: the returned list is in non-increasing order of reported similarity.
\* With a numeric limit L it is the greedy selection over the accepted pairs
\* in that order: a pair is kept iff neither of its ids occurs L times among
\* the pairs kept before it; so no id occurs more than L times, and with
\* L = 1 and three mutually accepted units only the highest pair is returned.
\* Without a numeric limit all accepted pairs are returned.
C5_OrderedAndLimited ==
    SimDone =>
        LET ordered == SortBySimilarity(SimAccepted)
            kept(k) == ordered[k] \in SetOf(SimReturned)
            keptBefore(k, id) ==
                Cardinality({m \in 1..(k - 1) :
                                kept(m) /\ id \in {ordered[m].a, ordered[m].b}})
        IN  /\ \A k \in 1..(Len(SimReturned) - 1) :
                 SimReturned[k].similarity >= SimReturned[k + 1].similarity
            /\ SimReturned = SelectSeq(ordered, LAMBDA pair : pair \in SetOf(SimReturned))
            /\ simConfig.limit.t = "number" =>
                 /\ \A k \in 1..Len(ordered) :
                      kept(k) <=> /\ keptBefore(k, ordered[k].a) < simConfig.limit.n
                                  /\ keptBefore(k, ordered[k].b) < simConfig.limit.n
                 /\ \A e \in SetOf(simEntries) :
                      Occurrences(SimReturned, e.component.id) <= simConfig.limit.n
                 /\ (simConfig.limit.n = 1 /\ Len(simEntries) = 3 /\ Len(SimAccepted) = 3) =>
                      /\ Len(SimReturned) = 1
                      /\ \A k \in 1..3 : SimReturned[1].similarity >= SimAccepted[k].similarity
            /\ simConfig.limit.t # "number" =>
                 /\ Len(SimReturned) = Len(SimAccepted)
                 /\ SetOf(SimReturned) = SetOf(SimAccepted)

\* Limit 1 and three mutually accepted units: one pair is returned, and it is
\* not the one that was accepted first.
C5_Witness ==
    /\ SimDone
    /\ simConfig.limit = Num(1)
    /\ Len(simEntries) = 3
    /\ Len(SimAccepted) = 3
    /\ Len(SimReturned) = 1
    /\ SimReturned[1] # SimAccepted[1]

(***************************************************************************)
(* Claims about embedComponents followed by findSimilarities               *)
(***************************************************************************)

\* The entries of a run on the same units that finds no cache: every vector
\* comes from the backend.
FreshEntries(units) ==
    [k \in 1..Len(units) |->
        BuildEntry(units[k].component, units[k].rep,
                   ResolveVectors(Undefined, FingerprintOf(units[k].rep), units[k].rep),
                   emConfig.weight)]

\* No entry the run looked up holds an empty array for a vector.
NoEmptyCachedVector ==
    \A item \in EmLogged :
        item.cached # Undefined =>
            \A i \in 1..Len(VecKeys) : item.cached[VecKeys[i]] # Arr(<<>>)

\* C6: whatever cache file a finished run found (none, an unreadable one, one
\* written by earlier runs, one with vectors missing), cleaned or not, with or
\* without progress reporting, its pairs and scorecard are those of a run on
\* the same units, representations and backend that finds no cache.
C6_PairsIndependentOfCache ==
    (emRun.pc = "done" /\ NoEmptyCachedVector) =>
        findSimilarities(emRun.result.entries, DEFAULT_CONFIG)
            = findSimilarities(FreshEntries(emRun.units), DEFAULT_CONFIG)

(***************************************************************************)
(* Claims about labelPair                                                  *)
(***************************************************************************)

\* labelPair has returned.
LbDone == lbResult # Undefined

\* The label is in what labelPair returned.
LbHas(label) == LbDone /\ label \in SetOf(lbResult.labels)

\* The context labelPair built for its arguments.
LbContext == buildContext(lbA, lbB, lbSimilarity, lbConfig)

\* C11: labelPair never returns a label listed in config.disableAnalyses;
\* with all six labels disabled it returns no labels and no hints; every
\* returned label is one of the six kinds, in the fixed order wrapper-duplicate,
\* style-duplicate, logic-duplicate, copy-paste-variant, prop-parameterizable,
\* forked-clone, none repeated.
C11_DisabledLabelsNeverReturned ==
    LbDone =>
        /\ \A l \in SetOf(lbResult.labels) : l \notin SetOf(lbConfig.disableAnalyses)
        /\ SetOf(LabelKinds) \subseteq SetOf(lbConfig.disableAnalyses) =>
               lbResult.labels = <<>> /\ lbResult.hints = <<>>
        /\ lbResult.labels = SelectSeq(LabelKinds, LAMBDA l : l \in SetOf(lbResult.labels))

\* Two wrappers with the same logic, wrapper-duplicate disabled and
\* logic-duplicate not: labelPair returned at least two labels.
C11_Witness ==
    /\ LbDone
    /\ lbA.component.isWrapper /\ lbB.component.isWrapper
    /\ lbConfig.disableAnalyses = <<"wrapper-duplicate", "style-duplicate">>
    /\ Len(lbResult.labels) >= 2

\* C12: labelPair assigns forked-clone iff forked-clone is not disabled,
\* similarity >= config.similarityThreshold, none of the other five labels
\* was assigned, and the line counts of the two sources differ by at least 4;
\* so forked-clone, when assigned, is the pair's only label.
C12_ForkedCloneOnlyAlone ==
    LbDone =>
        /\ LbHas("forked-clone") <=>
               /\ "forked-clone" \notin SetOf(lbConfig.disableAnalyses)
               /\ lbSimilarity >= lbConfig.similarityThreshold
               /\ SetOf(lbResult.labels) \ {"forked-clone"} = {}
               /\ Abs(lineCount(lbA.component.source) - lineCount(lbB.component.source)) >= 4
        /\ LbHas("forked-clone") => lbResult.labels = <<"forked-clone">>

\* A pair whose sources differ by four lines, at the similarity threshold,
\* with three other analyses disabled: forked-clone was assigned.
C12_Witness ==
    /\ LbHas("forked-clone")
    /\ lbSimilarity = lbConfig.similarityThreshold
    /\ lbConfig.disableAnalyses =
           <<"logic-duplicate", "copy-paste-variant", "prop-parameterizable">>
    /\ Abs(lineCount(lbA.component.source) - lineCount(lbB.component.source)) = 4

\* C13: labelPair assigns prop-parameterizable iff the label is not disabled,
\* similarity >= config.highSimilarityThreshold, and either the literal
\* overlap is >= 0.4 or both units have a non-empty prop surface (at least
\* one named prop or at least one spread prop).
C13_PropParameterizableBySurface ==
    LbDone =>
        (LbHas("prop-parameterizable") <=>
            /\ "prop-parameterizable" \notin SetOf(lbConfig.disableAnalyses)
            /\ lbSimilarity >= lbConfig.highSimilarityThreshold
            /\ \/ OverlapAtLeast(lbA.component.literals, lbB.component.literals, 4, 10)
               \/ hasProps(lbA.component) /\ hasProps(lbB.component))

\* C14: labelPair assigns style-duplicate iff the label is not disabled, at
\* least one of the two entries has a style signal, the cosine of the two
\* style vectors is >= 0.8, and it is not the case that the entries share a
\* stylesheet path while neither has CSS-in-JS and neither has a stylesheet
\* path the other lacks.
C14_StyleDuplicateBeyondSharedSheet ==
    LET pathsA == SetOf(lbA.stylePaths)
        pathsB == SetOf(lbB.stylePaths)
    IN  LbDone =>
            (LbHas("style-duplicate") <=>
                /\ "style-duplicate" \notin SetOf(lbConfig.disableAnalyses)
                /\ lbA.hasStyles \/ lbB.hasStyles
                /\ cosine(lbA.styleVec.v, lbB.styleVec.v) >= 8 * (SimOne \div 10)
                /\ ~(/\ pathsA \cap pathsB # {}
                     /\ ~lbA.hasCssInJs /\ ~lbB.hasCssInJs
                     /\ pathsA \ pathsB = {} /\ pathsB \ pathsA = {}))

\* Two styled entries that share a stylesheet, one of them with a second
\* stylesheet of its own and neither with CSS-in-JS: style-duplicate was
\* assigned.
C14_Witness ==
    /\ LbHas("style-duplicate")
    /\ SetOf(lbA.stylePaths) \cap SetOf(lbB.stylePaths) # {}
    /\ SetOf(lbB.stylePaths) \ SetOf(lbA.stylePaths) # {}
    /\ ~lbA.hasCssInJs /\ ~lbB.hasCssInJs

(***************************************************************************)
(* Claims about a scan of two units                                        *)
(***************************************************************************)

\* findSimilarities has returned.
ScanDone == plResult # Undefined

\* The two units have the same four representations.
ScanIdenticalReps ==
    \A k \in {"codeRep", "styleRep", "structureRep", "holisticRep"} :
        plUnits[1].rep[k] = plUnits[2].rep[k]

\* The result is the one pair of the two units with similarity 1.0000,
\* category almost-identical and copy-paste-variant among its labels.
ScanReportedAsCopy ==
    /\ Len(plResult.pairs) = 1
    /\ plResult.pairs[1].a = plUnits[1].component.id
    /\ plResult.pairs[1].b = plUnits[2].component.id
    /\ plResult.pairs[1].similarity = SimOne
    /\ plResult.pairs[1].category = "almost-identical"
    /\ "copy-paste-variant" \in SetOf(plResult.pairs[1].labels)

\* C15 as stated: two units with identical representations, embedded through
\* a backend that returns one fixed nonzero vector for every input, are
\* returned by findSimilarities as a pair with similarity 1.0000, category
\* almost-identical and a label list that includes copy-paste-variant.
C15_IdenticalUnitsReported ==
    ScanDone /\ ScanIdenticalReps => ScanReportedAsCopy

\* C15, amended: the same, for two units that suppressPair gives no reason
\* for; a pair it gives a reason for is not returned and is counted under
\* that reason.
C15_IdenticalUnitsReportedUnlessSuppressed ==
    ScanDone /\ ScanIdenticalReps =>
        LET reason == suppressPair(plEntries.v[1], plEntries.v[2])
        IN  IF reason = NoReason THEN ScanReportedAsCopy
            ELSE /\ plResult.pairs = <<>>
                 /\ plResult.scorecard.suppressionReasons = (reason :> 1)
                 /\ plResult.scorecard.maxSimilarity = SimOne

\* Two plain units with the same styled representations were reported.
C15_Witness ==
    /\ ScanDone
    /\ ScanIdenticalReps
    /\ plUnits[1].rep = RepStyled
    /\ ScanReportedAsCopy

(***************************************************************************)
(* Further claims about findSimilarities                                   *)
(***************************************************************************)

\* C16 as stated: every returned pair has category almost-identical exactly
\* when its reported (4-decimal) similarity is >= config.highSimilarityThreshold,
\* and near-duplicate otherwise.
C16_CategoryByReportedSimilarity ==
    \A k \in 1..Len(SimReturned) :
        LET pair == SimReturned[k]
        IN  /\ pair.category \in {"almost-identical", "near-duplicate"}
            /\ pair.category = "almost-identical"
                  <=> pair.similarity >= simConfig.highSimilarityThreshold

\* C16 amended: the category is taken from the unrounded cosine. A returned
\* pair is almost-identical exactly when its cosine is >= highSimilarityThreshold
\* and near-duplicate otherwise; so with a threshold of at most 4 decimals an
\* almost-identical pair reports a similarity >= the threshold, and a
\* near-duplicate pair reports one that is at most the threshold.
C16_CategoryByCosine ==
    \A k \in 1..Len(SimReturned) :
        LET pair == SimReturned[k]
            raw == RawSimilarity(pair)
            high == simConfig.highSimilarityThreshold
        IN  /\ pair.category \in {"almost-identical", "near-duplicate"}
            /\ pair.category = "almost-identical" <=> raw >= high
            /\ high % FourthDecimal = 0 =>
                  /\ pair.category = "almost-identical" => pair.similarity >= high
                  /\ pair.category = "near-duplicate" => pair.similarity <= high

\* A returned near-duplicate pair whose cosine is below a high threshold of
\* four decimals and whose reported similarity equals that threshold.
C16_Witness ==
    /\ SimDone
    /\ \E k \in 1..Len(SimReturned) :
         /\ SimReturned[k].category = "near-duplicate"
         /\ RawSimilarity(SimReturned[k]) < simConfig.highSimilarityThreshold
         /\ SimReturned[k].similarity = simConfig.highSimilarityThreshold

\* The two entries' files are in the same directory.
SameDirectory(entryA, entryB) ==
    splitDirs(entryA.component.filePath) = splitDirs(entryB.component.filePath)

\* minPathDistance is 0, unset, null or not a number.
SimNoPathGate == simConfig.minPathDistance \in {Num(0), Undefined, Null, Str("far")}

\* With minPathDistance 2, an iteration on two files of one directory that
\* gets past the compare filter, the threshold gate and the max-threshold
\* gate adds one suppression under near-path and no pair.
C17_SameFolderStep ==
    (/\ SimCompareStep
     /\ simConfig.minPathDistance = Num(2)
     /\ SameDirectory(SimLeft, SimRight)
     /\ SimCompareMode => SimMixed(SimLeft, SimRight)
     /\ SimCosine >= simConfig.similarityThreshold
     /\ SimCosine - maxThreshold(simConfig) <= Epsilon) =>
        /\ simRun'.tally.pairs = simRun.tally.pairs
        /\ ReasonCount(simRun'.tally.suppressionReasons, "near-path")
             = ReasonCount(simRun.tally.suppressionReasons, "near-path") + 1
        /\ simRun'.tally.suppressedPairs = simRun.tally.suppressedPairs + 1

\* C17: with minPathDistance 0 (also unset or non-numeric) no pair is ever
\* suppressed with reason near-path; with minPathDistance 2 every pair of
\* files in the same directory that passes the threshold and max-threshold
\* gates is suppressed with reason near-path and is never reported.
C17_PathGate ==
    /\ [](SimNoPathGate =>
            /\ ReasonCount(simRun.tally.suppressionReasons, "near-path") = 0
            /\ SimDone =>
                  ReasonCount(simRun.result.scorecard.suppressionReasons, "near-path") = 0)
    /\ [](simConfig.minPathDistance = Num(2) =>
            \A k \in 1..Len(SimAccepted) :
                ~SameDirectory(SimEntryOf(SimAccepted[k].a), SimEntryOf(SimAccepted[k].b)))
    /\ [][C17_SameFolderStep]_vars

\* With minPathDistance 2, a pair of two files of one directory was
\* suppressed under near-path and nothing was returned for it.
C17_Witness ==
    /\ SimDone
    /\ simConfig.minPathDistance = Num(2)
    /\ Len(simEntries) = 2
    /\ SameDirectory(simEntries[1], simEntries[2])
    /\ ReasonCount(simRun.result.scorecard.suppressionReasons, "near-path") = 1
    /\ SimReturned = <<>>

\* The units that took part in at least one evaluated pair: those with
\* another unit in the list whose pair with them the compare-mode filter
\* does not remove.
SimParticipants ==
    {e \in SetOf(simEntries) :
        \E f \in SetOf(simEntries) :
            f # e /\ (SimCompareMode => SimMixed(e, f))}

\* C20: scorecard.coveredComponents equals the number of distinct units that
\* took part in at least one evaluated pair, whatever the similarities of
\* those pairs, including units all of whose evaluated pairs have similarity 0.
C20_CoveredCountsEveryEvaluatedUnit ==
    SimDone => simRun.result.scorecard.coveredComponents = Cardinality(SimParticipants)

\* emitReport has printed the top matches section.
SimReported == simPrinted # Undefined

\* C18: with a per-component limit configured, the console's top matches
\* section prints every pair that findSimilarities returned after applying
\* the limit; no pair of the result is left out because of the limit value.
C18_ConsolePrintsEveryReturnedPair ==
    SimReported /\ simConfig.limit.t = "number" => simPrinted.v = simRun.result.pairs

(***************************************************************************)
(* Claims about LocalEmbeddingBackend                                      *)
(***************************************************************************)

\* How often an event is in the log, and the first position of an event.
BeCount(event) == Cardinality({k \in 1..Len(beLog) : beLog[k] = event})

\* The readiness step is ensureModel with auto-download, and the local
\* model existence check without.
BeReadinessStarts == BeCount("ensureModel") + BeCount("assertLocalModelExists")

PdDone == pdOut # Undefined
\* The directories of a path, nearest first, as the claim walks them.
PdDirsA == splitDirs(pdA)
PdDirsB == splitDirs(pdB)
PdSegment(dirs, depth) == dirs[Len(dirs) - depth + 1]
\* At this depth both paths have a directory and the two are the same.
PdAgree(depth) ==
    /\ depth <= Len(PdDirsA)
    /\ depth <= Len(PdDirsB)
    /\ PdSegment(PdDirsA, depth) = PdSegment(PdDirsB, depth)
PdSameDirectory == PdDirsA = PdDirsB

\* C21 as stated: the distance is the 1-based depth, counted from the file
\* upwards, of the first position at which the directories differ or one
\* path has no directory left, and for two files of the same directory it
\* is 1.
C21_SameDirectoryIsOne ==
    PdDone =>
        /\ pdOut.n >= 1
        /\ \A depth \in 1..(pdOut.n - 1) : PdAgree(depth)
        /\ PdSameDirectory => pdOut.n = 1
        /\ ~PdSameDirectory => ~PdAgree(pdOut.n)

\* C21 amended: for two files whose directories are the same, which includes
\* two files of one directory, the distance is 0; otherwise it is the 1-based
\* depth of the first position at which the directories differ or exactly
\* one path has no directory left.
C21_SameDirectoryIsZero ==
    PdDone =>
        /\ PdSameDirectory <=> pdOut.n = 0
        /\ ~PdSameDirectory =>
              /\ pdOut.n >= 1
              /\ \A depth \in 1..(pdOut.n - 1) : PdAgree(depth)
              /\ ~PdAgree(pdOut.n)
              /\ pdOut.n <= Max(Len(PdDirsA), Len(PdDirsB))

\* Two different files of one directory, two levels deep, were measured.
C21_Witness ==
    /\ PdDone
    /\ pdA # pdB
    /\ PdSameDirectory
    /\ Len(PdDirsA) = 2


(***************************************************************************)
(* C22: the backend is called only for signals not reused from the cache   *)
(***************************************************************************)

\* The units of the current run that went through the loop, in order; a unit
\* whose backend call rejected is the last one.
EmUnitsLogged == 1..Len(emRun.log)
\* The cache key under which an entry holds the vector of a signal.
VecKeyOf(signal) ==
    CASE signal = "code" -> "codeVec"
      [] signal = "style" -> "styleVec"
      [] signal = "structure" -> "structureVec"
      [] signal = "holistic" -> "holisticVec"
\* How many backend calls a logged unit made for a signal.
CallsFor(logged, signal) ==
    Cardinality({c \in 1..Len(logged.calls) : logged.calls[c].signal = signal})
\* The stored fingerprint of the unit's entry is the current one.
StoredFingerprintMatches(logged) ==
    logged.cached # Undefined /\ logged.cached.fingerprint = logged.fingerprint
\* The entry of the unit has no vector under the key of the signal.
SignalMissing(logged, signal) == logged.cached[VecKeyOf(signal)] = Undefined
EmSignals == {"code", "style", "structure", "holistic"}

\* C22: a unit that is a cache hit makes no backend call; a unit without an
\* entry, or whose entry has another fingerprint, makes exactly one call each
\* for code, structure and holistic and at most one for style; a unit whose
\* fingerprint matches but whose entry is incomplete calls the backend only
\* for signals the entry does not hold and takes the others from the entry.
C22_BackendOnlyForUncachedSignals ==
    \A u \in EmUnitsLogged :
        LET logged == emRun.log[u]
        IN  /\ logged.hit => logged.calls = <<>>
            /\ (~logged.failed /\ ~StoredFingerprintMatches(logged)) =>
                  /\ \A signal \in {"code", "structure", "holistic"} :
                        CallsFor(logged, signal) = 1
                  /\ CallsFor(logged, "style") <= 1
            /\ (~logged.hit /\ StoredFingerprintMatches(logged)) =>
                  \A signal \in EmSignals :
                      /\ CallsFor(logged, signal) <= 1
                      /\ CallsFor(logged, signal) = 1 => SignalMissing(logged, signal)
                      /\ (~logged.failed /\ ~SignalMissing(logged, signal)) =>
                            emRun.entries[u][VecKeyOf(signal)]
                                = logged.cached[VecKeyOf(signal)]
            /\ \A signal \in EmSignals : CallsFor(logged, signal) <= 1

\* A unit whose entry has the current fingerprint and holds the code and the
\* structure vector only was resolved with a backend call for some but not
\* for every signal.
C22_Witness ==
    \E u \in EmUnitsLogged :
        LET logged == emRun.log[u]
        IN  /\ ~logged.failed
            /\ ~logged.hit
            /\ StoredFingerprintMatches(logged)
            /\ ~SignalMissing(logged, "code")
            /\ SignalMissing(logged, "holistic")
            /\ CallsFor(logged, "holistic") = 1
            /\ CallsFor(logged, "code") = 0


(***************************************************************************)
(* C23: the style vector of a unit without style text                      *)
(***************************************************************************)

\* The unit took its style vector from its cached entry.
StyleReused(logged) ==
    StoredFingerprintMatches(logged) /\ ~SignalMissing(logged, "style")
\* The unit has no text for the style signal, resolved, and did not take its
\* style vector from the cache.
StyleZeroed(u) ==
    /\ ~emRun.log[u].failed
    /\ FalsyText(emRun.log[u].rep.styleRep)
    /\ ~StyleReused(emRun.log[u])
CodeLength(u) == Len(emRun.entries[u].codeVec.v)
\* The backend is called for style only when the unit has style text.
StyleCallsNeedText ==
    \A u \in EmUnitsLogged :
        CallsFor(emRun.log[u], "style") > 0 => ~FalsyText(emRun.log[u].rep.styleRep)

\* C23 as stated: a unit without style text whose style vector is not reused
\* from the cache makes no backend call for style and gets an all-zero style
\* vector as long as its code vector; the backend is called for style only
\* when the unit has style text.
C23_ZeroStyleOfCodeLength ==
    /\ StyleCallsNeedText
    /\ \A u \in EmUnitsLogged :
          StyleZeroed(u) =>
              /\ CallsFor(emRun.log[u], "style") = 0
              /\ emRun.entries[u].styleVec = Arr(zeroVector(CodeLength(u)))

(***************************************************************************)
(* C24: when embedComponents writes the cache store                        *)
(***************************************************************************)

\* Some unit of the run got a vector that was not taken from its entry.
SomeVectorFresh ==
    \E u \in EmUnitsLogged, signal \in EmSignals :
        ~(StoredFingerprintMatches(emRun.log[u]) /\ ~SignalMissing(emRun.log[u], signal))
EmAllHits == \A u \in EmUnitsLogged : emRun.log[u].hit
EmDiskUntouched == emDisk = emRun.diskAtStart

\* C24: a run calls saveCache at most once and only after the last unit; it
\* does so exactly when some vector was not taken from the cache or cleanup
\* removed an entry; a run of complete hits without a removal leaves the
\* file as it was, and so does every run without a cache path.
C24_WriteOnceWhenChanged ==
    /\ emRun.saves <= 1
    /\ emRun.pc \in {"loop", "failed"} => (emRun.saves = 0 /\ EmDiskUntouched)
    /\ emRun.pc = "done" =>
          /\ emRun.saves = 1 <=> (SomeVectorFresh \/ emRun.cleaned > 0)
          /\ emRun.saves = 0 => EmDiskUntouched
          /\ (EmAllHits /\ emRun.cleaned = 0) => (emRun.saves = 0 /\ EmDiskUntouched)
          /\ FalsyText(emConfig.cachePath) => EmDiskUntouched
          /\ (emRun.saves = 1 /\ ~FalsyText(emConfig.cachePath)) =>
                emDisk = [kind |-> "data", encoding |-> "msgpack", value |-> emRun.cache]

\* A run over two units that were both complete hits, with nothing cleaned,
\* has returned without a write.
C24_Witness ==
    /\ emRun.pc = "done"
    /\ Len(emRun.log) = 2
    /\ EmAllHits
    /\ emRun.cleaned = 0
    /\ emRun.saves = 0

(***************************************************************************)
(* C25: cache cleanup                                                      *)
(***************************************************************************)

\* The keys of the entries of a store.
StoreKeys(store) == IF store.entries.t = "object" THEN DOMAIN store.entries.m ELSE {}
\* The store the current run loaded, before cleanup.
EmLoaded == loadCache(emConfig.cachePath, emRun.diskAtStart).store
\* The run is past its setup and has not processed a unit yet.
EmBeforeFirstUnit == emRun.pc = "loop" /\ emRun.idx = 1
\* The entries cleanup took out of the loaded store.
EmRemoved == StoreKeys(EmLoaded) \ StoreKeys(emRun.cache)
\* The file an entry was recorded for: its filePath, else the one in its key.
RecordedFile(k) == CleanupPath(k, EmLoaded.entries.m[k])

\* C25: cleanup never runs when cleanProbability is 0; when it runs, before
\* the first unit, it removes exactly the entries whose recorded file does
\* not exist, keeps every entry whose file exists or for which no file is
\* recorded, and cacheStats.cleaned is the number of entries removed.
C25_CleanupOnlyWithProbability ==
    /\ EmBeforeFirstUnit =>
          /\ emConfig.cleanProbability = 0 => EmRemoved = {}
          /\ \A k \in EmRemoved :
                /\ ~FalsyText(RecordedFile(k))
                /\ RecordedFile(k) \notin emFiles
          /\ EmRemoved # {} =>
                EmRemoved = {k \in StoreKeys(EmLoaded) :
                               ~FalsyText(RecordedFile(k)) /\ RecordedFile(k) \notin emFiles}
          /\ emRun.cleaned = Cardinality(EmRemoved)
    /\ emRun.pc = "done" => emRun.result.cacheStats.cleaned = emRun.cleaned
    /\ emConfig.cleanProbability = 0 => emRun.cleaned = 0

(***************************************************************************)
(* C26: every pair of entries has exactly one outcome                      *)
(***************************************************************************)

\* The sum of the counters of a map of suppression reasons.
RECURSIVE ReasonTotal(_)
ReasonTotal(reasons) ==
    IF DOMAIN reasons = {} THEN 0
    ELSE LET r == CHOOSE x \in DOMAIN reasons : TRUE
         IN  reasons[r] + ReasonTotal([x \in DOMAIN reasons \ {r} |-> reasons[x]])
\* n(n-1)/2 for the n entries.
SimAllPairs == (Len(simEntries) * (Len(simEntries) - 1)) \div 2
\* The pairs the compare filter drops, and the others whose cosine is below
\* the minimum threshold.
SimFilteredPairs == IF SimCompareMode THEN SimUnmixed ELSE {}
SimBelowPairs ==
    {p \in SimIndexPairs \ SimFilteredPairs :
        cosine(simEntries[p[1]].vector, simEntries[p[2]].vector)
            < simConfig.similarityThreshold}
\* A limit other than the configured one: 1 for none, none for a number.
SimOtherLimit == IF simConfig.limit.t = "number" THEN Null ELSE Num(1)

\* C26: when findSimilarities is done, evaluatedPairs is n(n-1)/2 minus the
\* number of compare-filtered pairs, suppressedPairs is the sum of the
\* counters of suppressionReasons, the accepted, the suppressed and the
\* below-threshold pairs add up to n(n-1)/2, and the scorecard is the same
\* with and without a config.limit.
C26_EveryPairHasOneOutcome ==
    SimDone =>
        LET scorecard == simRun.result.scorecard
            filtered == ReasonCount(scorecard.suppressionReasons, "compare-filter")
        IN  /\ filtered = Cardinality(SimFilteredPairs)
            /\ scorecard.evaluatedPairs = SimAllPairs - filtered
            /\ scorecard.suppressedPairs = ReasonTotal(scorecard.suppressionReasons)
            /\ Len(SimAccepted) + scorecard.suppressedPairs + Cardinality(SimBelowPairs)
                  = SimAllPairs
            /\ findSimilarities(simEntries,
                                 [simConfig EXCEPT !.limit = SimOtherLimit]).scorecard
                  = scorecard

\* Three entries gave a filtered pair, a pair suppressed for another reason
\* and an accepted pair.
C26_Witness ==
    /\ SimDone
    /\ Len(simEntries) = 3
    /\ Cardinality(SimFilteredPairs) = 1
    /\ simRun.result.scorecard.suppressedPairs = 2
    /\ Len(SimAccepted) = 1

(***************************************************************************)
(* C27: the order of a pair's units and the absence of repeated pairs      *)
(***************************************************************************)

\* The positions of the entries with a given unit id.
SimPositions(id) == {i \in 1..Len(simEntries) : simEntries[i].component.id = id}
\* In a list of pairs, a's entry precedes b's, a differs from b, and no two
\* pairs have the same two units.
PairsOrderedOnce(pairs) ==
    /\ \A k \in 1..Len(pairs) :
          /\ \E i \in SimPositions(pairs[k].a), j \in SimPositions(pairs[k].b) : i < j
          /\ pairs[k].a # pairs[k].b
    /\ \A k, l \in 1..Len(pairs) :
          {pairs[k].a, pairs[k].b} = {pairs[l].a, pairs[l].b} => k = l

\* C27: in every pair findSimilarities returns, a is the id of an entry that
\* precedes the entry of b in the input list, a differs from b, and no two
\* returned pairs have the same two units, with and without a limit; the
\* same holds of the pairs accepted before the limit is applied.
C27_PairsOrderedAndUnique ==
    /\ PairsOrderedOnce(SimAccepted)
    /\ SimDone => PairsOrderedOnce(SimReturned)

\* Three pairs were returned from three entries, sorted so that the first
\* returned pair is not the first one compared.
C27_Witness ==
    /\ SimDone
    /\ Len(SimReturned) = 3
    /\ SimReturned[1].a # simEntries[1].component.id

(***************************************************************************)
(* C28: the order of the suppression rules and the wrapper rule            *)
(***************************************************************************)

SpDone == spOut # Undefined
SpCompA == spA.component
SpCompB == spB.component
\* One of the two units renders the other.
SpComposition ==
    \/ SpCompB.name \in SetOf(SpCompA.componentRefs)
    \/ SpCompA.name \in SetOf(SpCompB.componentRefs)
SpBothWrapperLike == isWrapperLike(SpCompA) /\ isWrapperLike(SpCompB)
\* Both units have component references and no reference in common.
SpDifferentBases ==
    /\ SpCompA.componentRefs # <<>>
    /\ SpCompB.componentRefs # <<>>
    /\ \A ref \in SetOf(SpCompA.componentRefs) : ref \notin SetOf(SpCompB.componentRefs)
\* Both units have tags and the same most frequent one.
SpSameDominantTag ==
    /\ SpCompA.jsxTags # <<>>
    /\ SpCompB.jsxTags # <<>>
    /\ dominantTag(SpCompA) = dominantTag(SpCompB)
\* Neither unit has logic tokens or hooks, and together they have at most 3
\* text nodes and at most 6 literals.
SpLean ==
    /\ SpCompA.logicTokens = <<>> /\ SpCompB.logicTokens = <<>>
    /\ SpCompA.hooks = <<>> /\ SpCompB.hooks = <<>>
    /\ Len(SpCompA.textNodes) + Len(SpCompB.textNodes) <= 3
    /\ Len(SpCompA.literals) + Len(SpCompB.literals) <= 6
SpLowSignal == Str(lowSignalSuppression(SpCompA, SpCompB))
WrapperReasons == {Str("wrapper-different-base"), Str("wrapper-specialization")}

\* C28: the rules are tried in the order component-composition, wrapper,
\* low-signal and the first that applies gives the reason. Without a
\* composition, two wrapper-like units get wrapper-different-base when both
\* have references and none in common, otherwise wrapper-specialization
\* when they have the same dominant tag or are lean, otherwise what the
\* low-signal rule gives; if either unit is not wrapper-like the wrapper rule
\* gives nothing and the low-signal rule decides.
C28_SuppressionOrder ==
    SpDone =>
        IF SpComposition THEN spOut = Str("component-composition")
        ELSE IF ~SpBothWrapperLike THEN spOut = SpLowSignal /\ spOut \notin WrapperReasons
        ELSE IF SpDifferentBases THEN spOut = Str("wrapper-different-base")
        ELSE IF SpSameDominantTag \/ SpLean THEN spOut = Str("wrapper-specialization")
        ELSE spOut = SpLowSignal

\* Two wrapper-like units with a reference in common, different dominant
\* tags and a logic token fell through the wrapper rule and were suppressed
\* by the low-signal rule.
C28_Witness ==
    /\ SpDone
    /\ ~SpComposition
    /\ SpBothWrapperLike
    /\ ~SpDifferentBases
    /\ ~SpSameDominantTag
    /\ ~SpLean
    /\ spOut = Str("low-signal-pair")

(***************************************************************************)
(* C29: the parts combineVectors leaves out                                *)
(***************************************************************************)

CvDone == cvOut # Undefined
\* The weight a part enters with: 0 for style without a style signal.
CvEffectiveWeight(signal) ==
    IF signal = "style" /\ ~cvHasStyleSignal THEN 0 ELSE cvWeight[signal]
\* The parts with a non-empty vector and a positive effective weight.
CvSurvivors ==
    {signal \in EmSignals :
        /\ NonEmptyArray(cvVectors[VecKeyOf(signal)])
        /\ CvEffectiveWeight(signal) > 0}
CvShortest ==
    CHOOSE n \in {Len(cvVectors[VecKeyOf(signal)].v) : signal \in CvSurvivors} :
        \A signal \in CvSurvivors : n <= Len(cvVectors[VecKeyOf(signal)].v)
\* The arguments without a part: its vector empty and its weight 0.
CvVectorsWithout(signal) == [cvVectors EXCEPT ![VecKeyOf(signal)] = Arr(<<>>)]
CvWeightWithout(signal) == [cvWeight EXCEPT ![signal] = 0]

\* C29: a part with an empty vector or a weight that is not positive does
\* not enter the combined vector, and for a unit without a style signal the
\* combined vector is the same for every style vector and every style
\* weight; its length is the shortest length among the parts that enter, and
\* it is empty when none enters.
C29_CombineLeavesOutAbsentParts ==
    CvDone =>
        /\ \A signal \in EmSignals \ CvSurvivors :
              combineVectors(CvVectorsWithout(signal), CvWeightWithout(signal),
                             cvHasStyleSignal) = cvOut.v
        /\ ~cvHasStyleSignal =>
              \A styleVec \in CvStyleVectors, style \in CvStyleWeights :
                  combineVectors([cvVectors EXCEPT !.styleVec = styleVec],
                                 [cvWeight EXCEPT !.style = style], FALSE) = cvOut.v
        /\ CvSurvivors = {} => cvOut.v = <<>>
        /\ CvSurvivors # {} => Len(cvOut.v) = CvShortest

\* A unit without a style signal, with a style vector of two elements and a
\* positive style weight, got a combined vector of three elements.
C29_Witness ==
    /\ CvDone
    /\ ~cvHasStyleSignal
    /\ cvVectors.styleVec = Arr(<<4, 3>>)
    /\ cvWeight.style > 0
    /\ Len(cvOut.v) = 3

(***************************************************************************)
(* C30: no empty vector in a returned entry or a written cache entry       *)
(***************************************************************************)

\* The four vectors of a record are non-empty arrays.
AllVectorsNonEmpty(record) == \A i \in 1..Len(VecKeys) : NonEmptyArray(record[VecKeys[i]])

\* C30: whatever the cache held, with a backend that returns non-empty
\* vectors every entry embedComponents builds, and every cache entry it
\* stores for a unit, has non-empty code, style, structure and holistic
\* vectors.
C30_NoEmptyVectorCarried ==
    \A u \in EmUnitsLogged :
        ~emRun.log[u].failed =>
            /\ AllVectorsNonEmpty(emRun.entries[u])
            /\ AllVectorsNonEmpty(emRun.cache.entries.m[emRun.log[u].key])

====
